---------------------------- MODULE Spec2Model ----------------------------
(***************************************************************************)
(* A model of xq-test-infra (chauhaidang/xq-toolbox):                      *)
(*   - ComposeInvoker.waitForTestContainers, the polling loop that waits   *)
(*     for the test containers of a compose project to exit;               *)
(*   - ServiceLoader.loadFromDirectory / ComposeGenerator.readXQSpec, the  *)
(*     loader of a specification from a file or a directory;               *)
(*   - ComposeGenerator.generateComposeObject, the host-port assignment    *)
(*     and the injected gateway;                                           *)
(*   - ComposeGenerator.applyOverrides and generateNginxConfig;            *)
(*   - ComposeInvoker.detectDockerCompose and the operations that use it;  *)
(*   - the `up` command of the CLI;                                        *)
(*   - ComposeGenerator.convertServiceToCompose, field by field;           *)
(*   - ComposeInvoker.detectTestContainers;                                *)
(*   - the generated files and ComposeGenerator.cleanupTempFiles;          *)
(*   - ComposeInvoker.execCommand: the child, its timer and the signals.   *)
(* Strings the code takes apart (names, filenames, status rows) are        *)
(* sequences of one-character strings, so that includes(), endsWith(),     *)
(* sort() and the regular expressions are computed, not assumed.           *)
(***************************************************************************)
EXTENDS Integers, Sequences, FiniteSets, TLC

VARIABLES
    \* ---- ComposeInvoker.waitForTestContainers
    testContainers,   \* argument: the tracked service names
    timeout,          \* options.timeout
    checkInterval,    \* options.checkInterval
    waitPc,           \* position of the async function
    now,              \* Date.now()
    startTime,        \* const startTime
    pollCount,        \* number of execCommand calls that have settled
    lastPoll,         \* how this iteration's execCommand settled (stdout, or rejected)
    waitResult,       \* the value the call resolved to
    waitLog,          \* which message the call logged on return
    failedContainers, \* the per-service failures it logged
    interrupted       \* whether SIGINT or SIGTERM arrived during the wait, and
                      \* whether a child was there to forward it to

waitVars == <<testContainers, timeout, checkInterval, waitPc, now, startTime,
              pollCount, lastPoll, waitResult, waitLog, failedContainers,
              interrupted>>

VARIABLES
    \* ---- ComposeGenerator.readXQSpec / ServiceLoader.loadFromDirectory
    sourceKind,       \* what specPath is: "missing", "directory", "file", "other"
    dirFiles,         \* a directory's files: filename and parsed YAML content
    globalConfig,     \* the content of xq.config.yml, if the directory has one
    fileSpec,         \* a single spec file's parsed YAML content
    loads             \* the outcomes of the readXQSpec calls made so far

loadVars == <<sourceKind, dirFiles, globalConfig, fileSpec, loads>>

VARIABLES
    \* ---- ComposeGenerator.generateComposeObject
    genSpec,          \* argument: the specification (services, portRange.start)
    enableGateway,    \* argument: options.gateway
    genPc,            \* position: "call", "services" (in the forEach), "done"
    genIndex,         \* number of services the forEach has processed
    nextPort,         \* let nextPort: the cursor of the auto assignment
    usedPorts,        \* const usedPorts: the host ports taken so far
    compose           \* compose.services, in insertion order

genVars == <<genSpec, enableGateway, genPc, genIndex, nextPort, usedPorts, compose>>

VARIABLES
    \* ---- ComposeGenerator.applyOverrides
    ovSpec,           \* argument: the specification
    ovOverrides,      \* argument: overrides.services, in key order
    ovPc,             \* position: "call", "done"
    ovMerged          \* the value returned

overrideVars == <<ovSpec, ovOverrides, ovPc, ovMerged>>

VARIABLES
    \* ---- generateNginxConfig
    nginxServices,    \* argument: servicesMap (ports and routes of the services)
    nginxPc,          \* position: "call", "done"
    conf              \* the configuration written to outPath

nginxVars == <<nginxServices, nginxPc, conf>>

VARIABLES
    \* ---- ComposeInvoker.detectDockerCompose
    dockerComposeCli, \* this.dockerComposeCli: the cached launcher, or null
    detectPc,         \* position of the call: "idle" when none is running
    operation,        \* the operation that asked for the launcher
    probes,           \* the probes the current (or last) call has made, in order
    detectResult,     \* what the last call settled with
    launched,         \* the last command an operation has run
    detectCalls,      \* number of calls that have settled
    composeExists     \* fs.access(composeFile) would succeed

detectVars == <<dockerComposeCli, detectPc, operation, probes, detectResult,
                launched, detectCalls, composeExists>>

VARIABLES
    \* ---- the `up` command of the CLI
    shouldPull,       \* opts.pull !== false
    upPc,             \* position of the action: the await it is at, or "exit"
    events,           \* the invoker calls made, how they settled, the messages
    sourcePath,       \* the source directory found, or "null"
    detected,         \* what detectTestContainers resolved to
    exitCode          \* process.exit code; "0" when the action returns

upVars == <<shouldPull, upPc, events, sourcePath, detected, exitCode>>

VARIABLES
    \* ---- convertServiceToCompose, every field of one descriptor
    descriptor,       \* argument: the service of the specification
    convertPc,        \* "call" before the conversion, "done" after it
    composeService    \* the compiled entry: its fields and their values

convertVars == <<descriptor, convertPc, composeService>>

VARIABLES
    \* ---- detectTestContainers
    tdSource,         \* argument sourcePath: "null", or what is at the path
    tdFiles,          \* the listing of the source directory
    tdServices,       \* the service names of the compiled document, in order
    tdPc,             \* position of the call: the await it is at, or "done"
    tdResult,         \* the list the call resolves to
    tdOutcome         \* the return statement taken

testDetectVars == <<tdSource, tdFiles, tdServices, tdPc, tdResult, tdOutcome>>

VARIABLES
    \* ---- generateCompose and cleanupTempFiles: the generated artifacts
    tempFiles,        \* this.tempFiles
    artifacts,        \* per path: whether the file exists, and the keepFile
                      \* of the call that wrote it last
    writing,          \* the generateCompose call in progress, or NotWriting
    generateCalls,    \* number of generateCompose calls started
    cleanupRuns       \* number of cleanupTempFiles runs

cleanupVars == <<tempFiles, artifacts, writing, generateCalls, cleanupRuns>>

VARIABLES
    \* ---- execCommand: the subprocesses of one invocation of the CLI
    children,         \* every child spawned so far, with its timer and promise
    elapsed,          \* time since the last child was spawned
    received          \* the signals the process has received

execVars == <<children, elapsed, received>>

\* What each part of the program leaves alone.
notWaitVars == <<loadVars, genVars, overrideVars, nginxVars, detectVars,
    upVars, convertVars, testDetectVars, cleanupVars, execVars>>
notLoadVars == <<waitVars, genVars, overrideVars, nginxVars, detectVars,
    upVars, convertVars, testDetectVars, cleanupVars, execVars>>
notGenVars == <<waitVars, loadVars, overrideVars, nginxVars, detectVars,
    upVars, convertVars, testDetectVars, cleanupVars, execVars>>
notOverrideVars == <<waitVars, loadVars, genVars, nginxVars, detectVars,
    upVars, convertVars, testDetectVars, cleanupVars, execVars>>
notNginxVars == <<waitVars, loadVars, genVars, overrideVars, detectVars,
    upVars, convertVars, testDetectVars, cleanupVars, execVars>>
notDetectVars == <<waitVars, loadVars, genVars, overrideVars, nginxVars,
    upVars, convertVars, testDetectVars, cleanupVars, execVars>>
notUpVars == <<waitVars, loadVars, genVars, overrideVars, nginxVars,
    detectVars, convertVars, testDetectVars, cleanupVars, execVars>>
notConvertVars == <<waitVars, loadVars, genVars, overrideVars, nginxVars,
    detectVars, upVars, testDetectVars, cleanupVars, execVars>>
notTestDetectVars == <<waitVars, loadVars, genVars, overrideVars, nginxVars,
    detectVars, upVars, convertVars, cleanupVars, execVars>>
notCleanupVars == <<waitVars, loadVars, genVars, overrideVars, nginxVars,
    detectVars, upVars, convertVars, testDetectVars, execVars>>
notExecVars == <<waitVars, loadVars, genVars, overrideVars, nginxVars,
    detectVars, upVars, convertVars, testDetectVars, cleanupVars>>

vars == <<waitVars, loadVars, genVars, overrideVars, nginxVars, detectVars,
    upVars, convertVars, testDetectVars, cleanupVars, execVars>>

(***************************************************************************)
(* Strings as sequences of characters.                                     *)
(***************************************************************************)

\* String.prototype.includes: needle occurs in hay as a contiguous run.
Includes(hay, needle) ==
    \E i \in 0..(Len(hay) - Len(needle)) :
        \A k \in 1..Len(needle) : hay[i + k] = needle[k]

StartsWith(s, prefix) ==
    /\ Len(prefix) <= Len(s)
    /\ \A k \in 1..Len(prefix) : s[k] = prefix[k]

EndsWith(s, suffix) ==
    /\ Len(suffix) <= Len(s)
    /\ \A k \in 1..Len(suffix) : s[Len(s) - Len(suffix) + k] = suffix[k]

\* Array.prototype.join(' ') of the parts of a row.
RECURSIVE JoinParts(_)
JoinParts(parts) ==
    IF parts = <<>> THEN <<>>
    ELSE IF Len(parts) = 1 THEN parts[1]
    ELSE parts[1] \o <<" ">> \o JoinParts(Tail(parts))

Digits == {"0", "1", "2", "3", "4", "5", "6", "7", "8", "9"}

DigitValue(c) ==
    CASE c = "0" -> 0 [] c = "1" -> 1 [] c = "2" -> 2 [] c = "3" -> 3
      [] c = "4" -> 4 [] c = "5" -> 5 [] c = "6" -> 6 [] c = "7" -> 7
      [] c = "8" -> 8 [] c = "9" -> 9

\* parseInt(digits, 10) of a run of decimal digits.
RECURSIVE ParseInt(_)
ParseInt(ds) ==
    IF ds = <<>> THEN 0
    ELSE ParseInt(SubSeq(ds, 1, Len(ds) - 1)) * 10 + DigitValue(ds[Len(ds)])


(***************************************************************************)
(* The output of `docker compose ps -a` (the environment).  A row is the   *)
(* sequence of its whitespace-separated parts, as the tests write it:      *)
(*   NAME  SERVICE  STATUS                                                 *)
(***************************************************************************)

Svc_a  == <<"a">>
Svc_ab == <<"a", "b">>
Svc_c  == <<"c">>

\* The services of the compose project, in the order ps lists them.
ProjectServices == <<Svc_a, Svc_ab, Svc_c>>

\* The lists of test containers the wait is called with: none, one, a name
\* that is a substring of another service's name, two unrelated names.
TrackedLists ==
    {<<>>, <<Svc_a>>, <<Svc_ab>>, <<Svc_c>>,
     <<Svc_a, Svc_ab>>, <<Svc_ab, Svc_c>>}

W_Up     == <<"U", "p">>
W_Exited == <<"E", "x", "i", "t", "e", "d">>
W_exited == <<"e", "x", "i", "t", "e", "d">>
W_Code0  == <<"(", "0", ")">>
W_Code1  == <<"(", "1", ")">>
W_NAME    == <<"N", "A", "M", "E">>
W_SERVICE == <<"S", "E", "R", "V", "I", "C", "E">>
W_STATUS  == <<"S", "T", "A", "T", "U", "S">>
W_Dashes  == <<"-", "-", "-">>

\* The STATUS column of a row: a running container, one that exited with
\* code 0 or 1, and docker's lower-case spelling of an exit.
StatusTexts ==
    {<<W_Up>>, <<W_Exited, W_Code0>>, <<W_Exited, W_Code1>>, <<W_exited, W_Code1>>}

Absent == <<>>

ContainerName(service) == <<"p", "-">> \o service \o <<"-", "1">>

PsRow(service, status) == <<ContainerName(service), service>> \o status

RECURSIVE PsRows(_, _)
PsRows(services, statusOf) ==
    IF services = <<>> THEN <<>>
    ELSE (IF statusOf[services[1]] = Absent THEN <<>>
          ELSE <<PsRow(services[1], statusOf[services[1]])>>)
         \o PsRows(Tail(services), statusOf)

Range(seq) == {seq[i] : i \in DOMAIN seq}

\* Every stdout ps can print for the project: a header, then one row for
\* each container that exists.
PsOutputs ==
    {<<<<W_NAME, W_SERVICE, W_STATUS>>>> \o PsRows(ProjectServices, f) :
        f \in [Range(ProjectServices) -> StatusTexts \cup {Absent}]}

(***************************************************************************)
(* waitForTestContainers: parsing one poll.                                *)
(***************************************************************************)

\* line.includes(word), for a word without whitespace.
LineIncludes(line, word) == \E p \in DOMAIN line : Includes(line[p], word)

\* The header test of the row loop.
IsHeaderLine(line) ==
    \/ LineIncludes(line, W_NAME)
    \/ LineIncludes(line, W_SERVICE)
    \/ (line # <<>> /\ StartsWith(line[1], W_Dashes))

\* parts.findIndex(part => part.includes(serviceName)), 1-based; 0 if none.
ServiceIndex(parts, serviceName) ==
    IF \E p \in DOMAIN parts : Includes(parts[p], serviceName)
    THEN CHOOSE p \in DOMAIN parts :
            /\ Includes(parts[p], serviceName)
            /\ \A q \in 1..(p - 1) : ~Includes(parts[q], serviceName)
    ELSE 0

\* The status text of a row: everything after the first part that holds the
\* service name, or the last part when that part is the last one.
StatusOf(parts, serviceName) ==
    LET serviceIndex == ServiceIndex(parts, serviceName) IN
    IF serviceIndex >= 1 /\ serviceIndex < Len(parts)
    THEN JoinParts(SubSeq(parts, serviceIndex + 1, Len(parts)))
    ELSE IF parts = <<>> THEN <<>> ELSE parts[Len(parts)]

OccursAt(text, i, word) ==
    /\ i + Len(word) - 1 <= Len(text)
    /\ \A k \in 1..Len(word) : text[i + k - 1] = word[k]

\* The first index from j on whose character is not in S (Len + 1 if none).
SkipWhile(text, j, S) ==
    CHOOSE k \in j..(Len(text) + 1) :
        /\ \A m \in j..(k - 1) : text[m] \in S
        /\ (k = Len(text) + 1 \/ text[k] \notin S)

\* One attempt of /Exited\s*\((\d+)\)/ at index i.
ExitCodeAt(text, i) ==
    IF ~OccursAt(text, i, W_Exited) THEN [matched |-> FALSE]
    ELSE LET open == SkipWhile(text, i + Len(W_Exited), {" "}) IN
         IF open > Len(text) \/ text[open] # "(" THEN [matched |-> FALSE]
         ELSE LET close == SkipWhile(text, open + 1, Digits) IN
              IF close = open + 1 \/ close > Len(text) \/ text[close] # ")"
              THEN [matched |-> FALSE]
              ELSE [matched |-> TRUE,
                    code |-> ParseInt(SubSeq(text, open + 1, close - 1))]

\* status.match(/Exited\s*\((\d+)\)/): the leftmost match.
ExitCodeMatch(status) ==
    IF \E i \in 1..Len(status) : ExitCodeAt(status, i).matched
    THEN ExitCodeAt(status,
            CHOOSE i \in 1..Len(status) :
                /\ ExitCodeAt(status, i).matched
                /\ \A j \in 1..(i - 1) : ~ExitCodeAt(status, j).matched)
    ELSE [matched |-> FALSE]

\* The exit code the code gives an exited row: 0 when the pattern is missing.
ExitCodeOf(status) ==
    LET exitCodeMatch == ExitCodeMatch(status) IN
    IF exitCodeMatch.matched THEN exitCodeMatch.code ELSE 0

IsExited(status) == Includes(status, W_Exited) \/ Includes(status, W_exited)

\* The record pushed for one (row, tracked name) pair that matches.
StatusRecord(line, serviceName) ==
    LET status == StatusOf(line, serviceName) IN
    IF IsExited(status)
    THEN [service |-> serviceName, exited |-> TRUE, exitCode |-> ExitCodeOf(status)]
    ELSE [service |-> serviceName, exited |-> FALSE]

\* The inner loop: for (const serviceName of testContainers).
RECURSIVE LineStatuses(_, _)
LineStatuses(line, names) ==
    IF names = <<>> THEN <<>>
    ELSE (IF LineIncludes(line, names[1])
          THEN <<StatusRecord(line, names[1])>> ELSE <<>>)
         \o LineStatuses(line, Tail(names))

\* The outer loop: for (const line of lines), header rows skipped.
RECURSIVE ParseStatuses(_, _)
ParseStatuses(lines, names) ==
    IF lines = <<>> THEN <<>>
    ELSE (IF IsHeaderLine(lines[1]) THEN <<>> ELSE LineStatuses(lines[1], names))
         \o ParseStatuses(Tail(lines), names)

AllFound(statuses, names) ==
    \A i \in DOMAIN names : \E j \in DOMAIN statuses : statuses[j].service = names[i]

AllExited(statuses, names) ==
    /\ Len(statuses) > 0
    /\ \A j \in DOMAIN statuses : statuses[j].exited
    /\ Len(statuses) = Len(names)

\* A filter that looks at the exited flag instead of the exit code.
FailedOf_ByExitedFlag(statuses) ==
    SelectSeq(statuses, LAMBDA c : ~c.exited)

\* testContainerStatuses.filter(c => c.exitCode !== 0)
FailedOf(statuses) ==
    SelectSeq(statuses, LAMBDA c : c.exitCode # 0)

(***************************************************************************)
(* waitForTestContainers: the polling loop.  Time is counted in units of   *)
(* the clock; a poll takes 0..MaxExecTime units and a sleep checkInterval. *)
(***************************************************************************)

MaxTimeout  == 3
MaxInterval == 2
MaxExecTime == 1

NoPoll == [kind |-> "none"]
Rejected == [kind |-> "rejected"]
Resolved(stdout) == [kind |-> "resolved", stdout |-> stdout]

WaitInit ==
    /\ testContainers \in TrackedLists
    /\ timeout \in 0..MaxTimeout
    /\ checkInterval \in 1..MaxInterval
    /\ waitPc = "call"
    /\ now = 0
    /\ startTime = 0
    /\ pollCount = 0
    /\ lastPoll = NoPoll
    /\ waitResult = "none"
    /\ waitLog = "none"
    /\ failedContainers = <<>>
    /\ interrupted = "no"

\* return value, with the message logged before it
WaitReturn(value, log, failed) ==
    /\ waitPc' = "done"
    /\ waitResult' = value
    /\ waitLog' = log
    /\ failedContainers' = failed

\* Entry: an empty list returns true at once; otherwise the binary is detected.
WaitCall ==
    /\ waitPc = "call"
    /\ IF Len(testContainers) = 0
       THEN WaitReturn("true", "none", <<>>)
       ELSE /\ waitPc' = "detect"
            /\ UNCHANGED <<waitResult, waitLog, failedContainers>>
    /\ UNCHANGED <<testContainers, timeout, checkInterval, now, startTime,
                   pollCount, lastPoll>>
    /\ UNCHANGED interrupted
    /\ UNCHANGED notWaitVars

\* await this.detectDockerCompose() resolved; startTime = Date.now().
WaitDetected ==
    /\ waitPc = "detect"
    /\ waitPc' = "loop"
    /\ startTime' = now
    /\ UNCHANGED <<testContainers, timeout, checkInterval, now, pollCount,
                   lastPoll, waitResult, waitLog, failedContainers>>
    /\ UNCHANGED interrupted
    /\ UNCHANGED notWaitVars

\* await this.detectDockerCompose() rejected: the call rejects.
WaitDetectFailed ==
    /\ waitPc = "detect"
    /\ waitPc' = "threw"
    /\ UNCHANGED <<testContainers, timeout, checkInterval, now, startTime,
                   pollCount, lastPoll, waitResult, waitLog, failedContainers>>
    /\ UNCHANGED interrupted
    /\ UNCHANGED notWaitVars

\* A loop condition that still polls when the timeout has just elapsed.
LoopCondition_Inclusive == now - startTime <= timeout

\* while (Date.now() - startTime < timeout)
LoopCondition == now - startTime < timeout

\* The head of the loop: start a poll, or leave the loop and report a timeout.
WaitLoop ==
    /\ waitPc = "loop"
    /\ IF LoopCondition
       THEN /\ waitPc' = "exec"
            /\ lastPoll' = NoPoll
            /\ UNCHANGED <<waitResult, waitLog, failedContainers>>
       ELSE /\ WaitReturn("false", "timeout", <<>>)
            /\ UNCHANGED lastPoll
    /\ UNCHANGED <<testContainers, timeout, checkInterval, now, startTime,
                   pollCount>>
    /\ UNCHANGED interrupted
    /\ UNCHANGED notWaitVars

\* What the loop body does with the statuses of one poll.
PollVerdict(statuses, names) ==
    IF AllFound(statuses, names) /\ AllExited(statuses, names)
    THEN IF Len(FailedOf(statuses)) > 0 THEN "false" ELSE "true"
    ELSE "pending"

FailureReport(statuses) ==
    [i \in DOMAIN FailedOf(statuses) |->
        [service |-> FailedOf(statuses)[i].service,
         exitCode |-> FailedOf(statuses)[i].exitCode]]

\* ParseStatuses over every (tracked list, stdout) pair of the model.
StatusTable ==
    [names \in TrackedLists |->
        [stdout \in PsOutputs |-> ParseStatuses(stdout, names)]]

\* execCommand resolved with stdout: parse it and return or sleep.
ExecResolve(stdout, d) ==
    /\ waitPc = "exec"
    /\ now' = now + d
    /\ pollCount' = pollCount + 1
    /\ lastPoll' = Resolved(stdout)
    /\ LET statuses == StatusTable[testContainers][stdout]
           verdict == PollVerdict(statuses, testContainers) IN
       CASE verdict = "true" -> WaitReturn("true", "success", <<>>)
         [] verdict = "false" -> WaitReturn("false", "failed", FailureReport(statuses))
         [] OTHER -> /\ waitPc' = "sleep"
                     /\ UNCHANGED <<waitResult, waitLog, failedContainers>>
    /\ UNCHANGED <<testContainers, timeout, checkInterval, startTime>>
    /\ UNCHANGED interrupted
    /\ UNCHANGED notWaitVars

\* A loop without the inner catch: the rejection leaves the call rejected.
AfterPollFailure_Uncaught == "threw"

\* Where the inner catch leaves the call after a rejected execCommand.
AfterPollFailure == "sleep"

\* execCommand rejected: the inner catch sleeps one interval and continues.
ExecReject(d) ==
    /\ waitPc = "exec"
    /\ now' = now + d
    /\ pollCount' = pollCount + 1
    /\ lastPoll' = Rejected
    /\ waitPc' = AfterPollFailure
    /\ UNCHANGED <<testContainers, timeout, checkInterval, startTime,
                   waitResult, waitLog, failedContainers>>
    /\ UNCHANGED interrupted
    /\ UNCHANGED notWaitVars

\* setTimeout(resolve, checkInterval) fired: back to the loop condition.
WaitWake ==
    /\ waitPc = "sleep"
    /\ now' = now + checkInterval
    /\ waitPc' = "loop"
    /\ UNCHANGED <<testContainers, timeout, checkInterval, startTime,
                   pollCount, lastPoll, waitResult, waitLog, failedContainers>>
    /\ UNCHANGED interrupted
    /\ UNCHANGED notWaitVars

\* SIGINT or SIGTERM arrives while the call awaits a status poll or sleeps.
\* The listeners on the process are those of setupCleanup, which removes the
\* temporary files, and those execCommand registered, which pass the signal
\* to their child; with a listener registered the process does not end on
\* the signal, and no listener touches the loop.
Interrupt ==
    /\ waitPc \in {"exec", "sleep"}
    /\ interrupted = "no"
    /\ interrupted' = IF waitPc = "exec" THEN "forwarded" ELSE "no child"
    /\ UNCHANGED <<testContainers, timeout, checkInterval, waitPc, now,
                   startTime, pollCount, lastPoll, waitResult, waitLog,
                   failedContainers>>
    /\ UNCHANGED notWaitVars

WaitNext ==
    \/ Interrupt
    \/ WaitCall
    \/ WaitDetected
    \/ WaitDetectFailed
    \/ WaitLoop
    \/ \E stdout \in PsOutputs, d \in 0..MaxExecTime : ExecResolve(stdout, d)
    \/ \E d \in 0..MaxExecTime : ExecReject(d)
    \/ WaitWake

(***************************************************************************)
(* ServiceLoader: filenames, the scan of a directory and name derivation.  *)
(***************************************************************************)

\* UTF-16 code units of the characters filenames are made of.
CharCode(c) ==
    CASE c = "." -> 46  [] c = "a" -> 97  [] c = "b" -> 98  [] c = "c" -> 99
      [] c = "e" -> 101 [] c = "g" -> 103 [] c = "i" -> 105 [] c = "l" -> 108
      [] c = "m" -> 109 [] c = "o" -> 111 [] c = "p" -> 112 [] c = "r" -> 114
      [] c = "s" -> 115 [] c = "t" -> 116 [] c = "v" -> 118 [] c = "y" -> 121

\* s < t as Array.prototype.sort() orders strings without a comparator.
LexLess(s, t) ==
    \E i \in 1..(Len(t)) :
        /\ \A k \in 1..(i - 1) : k <= Len(s) /\ s[k] = t[k]
        /\ (i > Len(s) \/ (i <= Len(s) /\ CharCode(s[i]) < CharCode(t[i])))

RECURSIVE InsertSorted(_, _)
InsertSorted(x, sorted) ==
    IF sorted = <<>> THEN <<x>>
    ELSE IF LexLess(x, sorted[1]) THEN <<x>> \o sorted
    ELSE <<sorted[1]>> \o InsertSorted(x, Tail(sorted))

\* serviceFiles.sort()
RECURSIVE Sort(_)
Sort(seq) ==
    IF seq = <<>> THEN <<>> ELSE InsertSorted(seq[1], Sort(Tail(seq)))

Ext_service_yml  == <<".", "s", "e", "r", "v", "i", "c", "e", ".", "y", "m", "l">>
Ext_service_yaml == <<".", "s", "e", "r", "v", "i", "c", "e", ".", "y", "a", "m", "l">>
Ext_yml          == <<".", "y", "m", "l">>

\* The filter of scanServiceFiles.
IsServiceFile(file) ==
    EndsWith(file, Ext_service_yml) \/ EndsWith(file, Ext_service_yaml)

\* scanServiceFiles: the service files of a listing, sorted.
ScanServiceFiles(listing) == Sort(SelectSeq(listing, IsServiceFile))

\* deriveServiceName: filename.replace(/\.service\.ya?ml$/, '')
DeriveServiceName(filename) ==
    IF EndsWith(filename, Ext_service_yml)
    THEN SubSeq(filename, 1, Len(filename) - Len(Ext_service_yml))
    ELSE IF EndsWith(filename, Ext_service_yaml)
    THEN SubSeq(filename, 1, Len(filename) - Len(Ext_service_yaml))
    ELSE filename

(***************************************************************************)
(* Specifications.  spec.services is an ordered mapping: a sequence of     *)
(* [name, config] in insertion order.  An absent list (depends_on,         *)
(* dependencyGroups) and an absent name are the empty sequence, which the  *)
(* code treats alike; spec.dependencies maps group names to name lists.    *)
(***************************************************************************)

NoName == <<>>

\* spec.services is a plain object literal: besides its own keys, services[x]
\* finds the properties every object inherits from Object.prototype
\* (constructor, toString, ...), of which the model has one.
Name_constructor == <<"c", "o", "n", "s", "t", "r", "u", "c", "t", "o", "r">>

InheritedNames == {Name_constructor}

Groups == {"g"}

NoDependencies == [group \in {} |-> <<>>]

ServiceNames(services) == {services[i].name : i \in DOMAIN services}

\* services[name]
ServiceConfig(services, name) ==
    services[CHOOSE i \in DOMAIN services : services[i].name = name].config

\* const { name, ...serviceConfig } = serviceData
StripName(serviceData) ==
    [field \in DOMAIN serviceData \ {"name"} |-> serviceData[field]]

(***************************************************************************)
(* ServiceLoader.validateDependencies: the depth-first search, with its    *)
(* visited set and recursion stack threaded through the calls.  `thrown`   *)
(* is the error a throw statement raised, which ends every loop.           *)
(***************************************************************************)

NoError == [kind |-> "none"]

CircularError(serviceName) == [kind |-> "circular", service |-> serviceName]

DanglingError(serviceName, dep) ==
    [kind |-> "dangling", service |-> serviceName, target |-> dep]

\* services[x] is truthy: an own key (a service config) or an inherited property.
Has(services, x) == x \in ServiceNames(services) \/ x \in InheritedNames

\* if (!services[dep])
IsMissing(services, dep) == ~Has(services, dep)

\* A traversal that never finds a service on the recursion stack.
OnStack_Never(st, serviceName) == FALSE

\* recursionStack.has(serviceName)
OnStack(st, serviceName) == serviceName \in st.recursionStack

RECURSIVE HasCycle(_, _, _)
RECURSIVE CheckDeps(_, _, _, _)

\* The for loop over service.depends_on, from its i-th entry on.
CheckDeps(services, serviceName, i, st) ==
    \* service && service.depends_on: an inherited property has no depends_on
    LET deps == IF serviceName \in ServiceNames(services)
                THEN ServiceConfig(services, serviceName).depends_on
                ELSE <<>> IN
    IF i > Len(deps) THEN st
    ELSE IF IsMissing(services, deps[i])
    THEN [st EXCEPT !.thrown = DanglingError(serviceName, deps[i])]
    ELSE LET r == HasCycle(services, deps[i], st) IN
         IF r.thrown # NoError THEN r
         ELSE IF r.result
         THEN [r EXCEPT !.thrown = CircularError(serviceName)]
         ELSE CheckDeps(services, serviceName, i + 1, r)

\* const hasCycle = (serviceName) => ...
HasCycle(services, serviceName, st) ==
    IF OnStack(st, serviceName) THEN [st EXCEPT !.result = TRUE]
    ELSE IF serviceName \in st.visited THEN [st EXCEPT !.result = FALSE]
    ELSE LET entered == [st EXCEPT !.visited = @ \cup {serviceName},
                                   !.recursionStack = @ \cup {serviceName}]
             r == CheckDeps(services, serviceName, 1, entered) IN
         IF r.thrown # NoError THEN r
         ELSE [r EXCEPT !.recursionStack = @ \ {serviceName}, !.result = FALSE]

\* for (const serviceName of Object.keys(services)), from the i-th key on.
RECURSIVE CheckAll(_, _, _)
CheckAll(services, i, st) ==
    IF i > Len(services) \/ st.thrown # NoError THEN st
    ELSE IF services[i].name \in st.visited THEN CheckAll(services, i + 1, st)
    ELSE CheckAll(services, i + 1, HasCycle(services, services[i].name, st))

\* validateDependencies(spec): the error it throws, or NoError.
ValidateDependencies(spec) ==
    CheckAll(spec.services, 1,
             [visited |-> {}, recursionStack |-> {}, result |-> FALSE,
              thrown |-> NoError]).thrown

(***************************************************************************)
(* ServiceLoader.mergeServiceFiles and loadFromDirectory.                  *)
(***************************************************************************)

DuplicateError(serviceName, filename) ==
    [kind |-> "duplicate", service |-> serviceName, file |-> filename]

Ok(spec) == [ok |-> TRUE, spec |-> spec]

Fail(error) == [ok |-> FALSE, error |-> error]

\* The parsed content of the file called filename.
FileData(files, filename) ==
    (CHOOSE f \in files : f.filename = filename).data

\* serviceData.name || this.deriveServiceName(filename)
ResolvedName(serviceData, filename) ==
    IF serviceData.name # NoName THEN serviceData.name
    ELSE DeriveServiceName(filename)

\* A merge that lets a later file take the place of an earlier one.
IsDuplicate_Never(services, serviceName) == FALSE

\* if (spec.services[serviceName])
IsDuplicate(services, serviceName) == Has(services, serviceName)

\* spec.services[serviceName] = serviceConfig
PutService(services, serviceName, serviceConfig) ==
    IF serviceName \in ServiceNames(services)
    THEN [i \in DOMAIN services |->
            IF services[i].name = serviceName
            THEN [name |-> serviceName, config |-> serviceConfig]
            ELSE services[i]]
    ELSE Append(services, [name |-> serviceName, config |-> serviceConfig])

\* The for loop of mergeServiceFiles, from the i-th file on.
RECURSIVE MergeFrom(_, _, _, _)
MergeFrom(files, serviceFiles, i, services) ==
    IF i > Len(serviceFiles) THEN Ok(services)
    ELSE LET filename == serviceFiles[i]
             serviceData == FileData(files, filename)
             serviceName == ResolvedName(serviceData, filename) IN
         IF IsDuplicate(services, serviceName)
         THEN Fail(DuplicateError(serviceName, filename))
         ELSE MergeFrom(files, serviceFiles, i + 1,
                        PutService(services, serviceName, StripName(serviceData)))

\* mergeServiceFiles(dirPath, serviceFiles, globalConfig)
MergeServiceFiles(files, serviceFiles, config) ==
    LET merged == MergeFrom(files, serviceFiles, 1, <<>>) IN
    IF ~merged.ok THEN merged
    ELSE LET spec == [services |-> merged.spec,
                      dependencies |-> config.dependencies,
                      portRangeStart |-> config.portRangeStart]
             thrown == ValidateDependencies(spec) IN
         IF thrown # NoError THEN Fail(thrown) ELSE Ok(spec)

\* loadFromDirectory(dirPath), for a directory listed as `listing`.
LoadFromDirectory(files, listing, config) ==
    LET serviceFiles == ScanServiceFiles(listing) IN
    IF Len(serviceFiles) = 0 THEN Fail([kind |-> "no-service-files"])
    ELSE MergeServiceFiles(files, serviceFiles, config)

(***************************************************************************)
(* The sources readXQSpec is given (the environment): a directory is built *)
(* file by file, a single spec file service by service, before the loads.  *)
(***************************************************************************)

MaxFiles == 3
MaxEdges == 3

File_a_yml  == <<"a">> \o Ext_service_yml
File_a_yaml == <<"a">> \o Ext_service_yaml
File_b_yml  == <<"b">> \o Ext_service_yml
File_other  == <<"b">> \o Ext_yml

\* The files a directory is made of: a filename and the `name` field of its
\* content (NoName when it has none).
FileHeaders ==
    {<<File_a_yaml, NoName>>, <<File_a_yml, NoName>>, <<File_a_yml, Svc_c>>,
     <<File_b_yml, NoName>>, <<File_b_yml, Svc_c>>, <<File_b_yml, Name_constructor>>,
     <<File_other, NoName>>}

\* The names depends_on entries are drawn from.
Names == {Svc_a, <<"b">>, Svc_c, Name_constructor}

\* The names the members of the dependency group are drawn from.
GroupMembers == {Svc_c}

\* The names of the services a single spec file is written with.
FileServiceNames == {Svc_a, <<"b">>}

NoConfig == [dependencies |-> NoDependencies, portRangeStart |-> 0]

NoFileSpec == [services |-> <<>>, dependencies |-> NoDependencies, portRangeStart |-> 0]

GroupSize(dependencies) ==
    IF "g" \in DOMAIN dependencies THEN Len(dependencies["g"]) ELSE 0

\* The dependency entries of one service: depends_on and dependencyGroups.
EntriesOf(key, config) ==
    {<<key, "depends_on", i>> : i \in DOMAIN config.depends_on}
    \cup {<<key, "dependencyGroups", i>> : i \in DOMAIN config.dependencyGroups}

\* The number of dependency entries written so far, in either kind of source.
Edges ==
    Cardinality(UNION {EntriesOf(f.filename, f.data) : f \in dirFiles})
    + Cardinality(UNION {EntriesOf(i, fileSpec.services[i].config) :
                            i \in DOMAIN fileSpec.services})
    + GroupSize(globalConfig.dependencies) + GroupSize(fileSpec.dependencies)

LoadInit ==
    /\ sourceKind \in {"missing", "directory", "file", "other"}
    /\ dirFiles = {}
    /\ globalConfig = NoConfig
    /\ fileSpec = NoFileSpec
    /\ loads = <<>>

\* A service file (or another file) is written into the directory.
WriteFile(filename, name) ==
    /\ sourceKind = "directory" /\ loads = <<>>
    /\ Cardinality(dirFiles) < MaxFiles
    /\ \A f \in dirFiles : f.filename # filename
    /\ dirFiles' = dirFiles \cup
          {[filename |-> filename,
            data |-> [name |-> name, depends_on |-> <<>>, dependencyGroups |-> <<>>]]}
    /\ UNCHANGED <<sourceKind, globalConfig, fileSpec, loads>>
    /\ UNCHANGED notLoadVars

\* A depends_on entry is added to a service file.
AddDependsOn(f, dep) ==
    /\ sourceKind = "directory" /\ loads = <<>>
    /\ f \in dirFiles /\ IsServiceFile(f.filename)
    /\ Edges < MaxEdges
    /\ dep \notin Range(f.data.depends_on)
    /\ dirFiles' = (dirFiles \ {f}) \cup
          {[f EXCEPT !.data.depends_on = Append(@, dep)]}
    /\ UNCHANGED <<sourceKind, globalConfig, fileSpec, loads>>
    /\ UNCHANGED notLoadVars

\* A service file joins the dependency group.
AddDependencyGroup(f) ==
    /\ sourceKind = "directory" /\ loads = <<>>
    /\ f \in dirFiles /\ IsServiceFile(f.filename)
    /\ Edges < MaxEdges
    /\ f.data.dependencyGroups = <<>>
    /\ dirFiles' = (dirFiles \ {f}) \cup
          {[f EXCEPT !.data.dependencyGroups = <<"g">>]}
    /\ UNCHANGED <<sourceKind, globalConfig, fileSpec, loads>>
    /\ UNCHANGED notLoadVars

WithMember(dependencies, member) ==
    [group \in Groups |->
        IF group \in DOMAIN dependencies
        THEN Append(dependencies[group], member) ELSE <<member>>]

\* xq.config.yml gets a member of its dependency group.
WriteGlobalConfig(member) ==
    /\ sourceKind = "directory" /\ loads = <<>>
    /\ Edges < MaxEdges
    /\ member \notin UNION {Range(globalConfig.dependencies[g]) :
                               g \in DOMAIN globalConfig.dependencies}
    /\ globalConfig' = [globalConfig EXCEPT
                           !.dependencies = WithMember(@, member)]
    /\ UNCHANGED <<sourceKind, dirFiles, fileSpec, loads>>
    /\ UNCHANGED notLoadVars

\* A service is added to the single spec file.
AddFileService(name) ==
    /\ sourceKind = "file" /\ loads = <<>>
    /\ Len(fileSpec.services) < MaxFiles
    /\ name \notin ServiceNames(fileSpec.services)
    /\ fileSpec' = [fileSpec EXCEPT !.services =
          Append(@, [name |-> name,
                     config |-> [depends_on |-> <<>>, dependencyGroups |-> <<>>]])]
    /\ UNCHANGED <<sourceKind, dirFiles, globalConfig, loads>>
    /\ UNCHANGED notLoadVars

\* A depends_on entry is added to a service of the single spec file.
AddFileDependsOn(i, dep) ==
    /\ sourceKind = "file" /\ loads = <<>>
    /\ i \in DOMAIN fileSpec.services
    /\ Edges < MaxEdges
    /\ dep \notin Range(fileSpec.services[i].config.depends_on)
    /\ fileSpec' = [fileSpec EXCEPT !.services[i].config.depends_on = Append(@, dep)]
    /\ UNCHANGED <<sourceKind, dirFiles, globalConfig, loads>>
    /\ UNCHANGED notLoadVars

\* A service of the single spec file joins the dependency group.
AddFileDependencyGroup(i) ==
    /\ sourceKind = "file" /\ loads = <<>>
    /\ i \in DOMAIN fileSpec.services
    /\ Edges < MaxEdges
    /\ fileSpec.services[i].config.dependencyGroups = <<>>
    /\ fileSpec' = [fileSpec EXCEPT !.services[i].config.dependencyGroups = <<"g">>]
    /\ UNCHANGED <<sourceKind, dirFiles, globalConfig, loads>>
    /\ UNCHANGED notLoadVars

\* The single spec file's `dependencies` gets a member of its group.
WriteFileDependencies(member) ==
    /\ sourceKind = "file" /\ loads = <<>>
    /\ Edges < MaxEdges
    /\ member \notin UNION {Range(fileSpec.dependencies[g]) :
                               g \in DOMAIN fileSpec.dependencies}
    /\ fileSpec' = [fileSpec EXCEPT !.dependencies = WithMember(@, member)]
    /\ UNCHANGED <<sourceKind, dirFiles, globalConfig, loads>>
    /\ UNCHANGED notLoadVars

(***************************************************************************)
(* ComposeGenerator.readXQSpec.                                            *)
(***************************************************************************)

MaxLoads == 2

\* The orders in which fs.readdir can list the directory.
Listings(files) ==
    {seq \in [1..Cardinality(files) -> {f.filename : f \in files}] :
        \A i, j \in DOMAIN seq : i # j => seq[i] # seq[j]}

\* The catch of readXQSpec: a new error whose message ends in the cause's.
ReadFailed(error) == Fail([kind |-> "failed-to-read", cause |-> error])

\* readXQSpec on a path that does not exist.
ReadMissing ==
    /\ sourceKind = "missing" /\ Len(loads) < MaxLoads
    /\ loads' = Append(loads, ReadFailed([kind |-> "path-does-not-exist"]))
    /\ UNCHANGED <<sourceKind, dirFiles, globalConfig, fileSpec>>
    /\ UNCHANGED notLoadVars

\* readXQSpec on a path that is neither a directory nor a file.
ReadOther ==
    /\ sourceKind = "other" /\ Len(loads) < MaxLoads
    /\ loads' = Append(loads, ReadFailed([kind |-> "invalid-path-type"]))
    /\ UNCHANGED <<sourceKind, dirFiles, globalConfig, fileSpec>>
    /\ UNCHANGED notLoadVars

\* readXQSpec on a directory: serviceLoader.loadFromDirectory(specPath).
ReadDirectory(listing) ==
    /\ sourceKind = "directory" /\ Len(loads) < MaxLoads
    /\ LET loaded == LoadFromDirectory(dirFiles, listing, globalConfig) IN
       loads' = Append(loads, IF loaded.ok THEN loaded ELSE ReadFailed(loaded.error))
    /\ UNCHANGED <<sourceKind, dirFiles, globalConfig, fileSpec>>
    /\ UNCHANGED notLoadVars

\* readXQSpec on a file: YAML.parse(content), returned as it is.
ReadFile ==
    /\ sourceKind = "file" /\ Len(loads) < MaxLoads
    /\ loads' = Append(loads, Ok(fileSpec))
    /\ UNCHANGED <<sourceKind, dirFiles, globalConfig, fileSpec>>
    /\ UNCHANGED notLoadVars

LoadNext ==
    \/ \E header \in FileHeaders : WriteFile(header[1], header[2])
    \/ \E f \in dirFiles, dep \in Names : AddDependsOn(f, dep)
    \/ \E f \in dirFiles : AddDependencyGroup(f)
    \/ \E member \in GroupMembers : WriteGlobalConfig(member)
    \/ \E name \in FileServiceNames : AddFileService(name)
    \/ \E i \in DOMAIN fileSpec.services, dep \in Names : AddFileDependsOn(i, dep)
    \/ \E i \in DOMAIN fileSpec.services : AddFileDependencyGroup(i)
    \/ \E member \in GroupMembers : WriteFileDependencies(member)
    \/ ReadMissing
    \/ ReadOther
    \/ \E listing \in Listings(dirFiles) : ReadDirectory(listing)
    \/ ReadFile

(***************************************************************************)
(* ComposeGenerator.generateComposeObject and convertServiceToCompose: the *)
(* host ports.  A service's `ports` is a list of "host:container" strings  *)
(* when hasPorts, and absent otherwise; `port` 0 is an absent port;        *)
(* autoPort is FALSE only when the service says `autoPort: false`.         *)
(***************************************************************************)

MaxServices == 3

\* spec.portRange?.start || 3000
DefaultStartPort == 3000

NaN == -1

\* String(n) of a non-negative integer.
RECURSIVE FormatInt(_)
FormatInt(n) ==
    LET digit == CHOOSE c \in Digits : DigitValue(c) = n % 10 IN
    IF n < 10 THEN <<digit>> ELSE FormatInt(n \div 10) \o <<digit>>

\* port.split(':')[0]
RECURSIVE SplitHead(_)
SplitHead(port) ==
    IF port = <<>> \/ port[1] = ":" THEN <<>>
    ELSE <<port[1]>> \o SplitHead(Tail(port))

\* The digits a string starts with.
RECURSIVE LeadingDigits(_)
LeadingDigits(s) ==
    IF s = <<>> \/ s[1] \notin Digits THEN <<>>
    ELSE <<s[1]>> \o LeadingDigits(Tail(s))

\* parseInt(port.split(':')[0])
HostPortOf(port) ==
    LET digits == LeadingDigits(SplitHead(port)) IN
    IF digits = <<>> THEN NaN ELSE ParseInt(digits)

\* while (usedPorts.has(p)) p++
RECURSIVE FirstFree(_, _)
FirstFree(p, used) == IF p \in used THEN FirstFree(p + 1, used) ELSE p

\* `${hostPort}:${service.port}`
Mapping(hostPort, port) == FormatInt(hostPort) \o <<":">> \o FormatInt(port)

\* The ports part of convertServiceToCompose(service, _, usedPorts, currentPort).
ConvertServiceToCompose(service, used, currentPort) ==
    IF service.hasPorts
    THEN [hasPorts |-> TRUE, ports |-> service.ports,
          usedPorts |-> used \cup
             ({HostPortOf(service.ports[i]) : i \in DOMAIN service.ports} \ {NaN})]
    ELSE IF service.port # 0 /\ service.autoPort # FALSE
    THEN LET hostPort == FirstFree(currentPort, used) IN
         [hasPorts |-> TRUE, ports |-> <<Mapping(hostPort, service.port)>>,
          usedPorts |-> used \cup {hostPort}]
    ELSE [hasPorts |-> FALSE, ports |-> <<>>, usedPorts |-> used]

\* An update that moves the cursor after every service.
AdvancesCursor_Always(service) == TRUE

\* if (service.autoPort !== false)
AdvancesCursor(service) == service.autoPort # FALSE

\* nextPort after the service: nextPort++ and the skip of the used ports.
CursorAfter(service, cursor, used) ==
    IF AdvancesCursor(service) THEN FirstFree(cursor + 1, used) ELSE cursor

(***************************************************************************)
(* convertServiceToCompose: healthcheck and depends_on.  A compiled        *)
(* depends_on is a list of entries: a service's own is the short form, a   *)
(* list of names that carry no condition; the gateway's maps every name to *)
(* a condition.                                                            *)
(***************************************************************************)

NoCondition == "none"

\* [...new Set(dependencies)]: the first occurrence of every name is kept.
RECURSIVE Unique(_)
Unique(seq) ==
    IF seq = <<>> THEN <<>>
    ELSE LET init == Unique(SubSeq(seq, 1, Len(seq) - 1))
             last == seq[Len(seq)] IN
         IF last \in Range(init) THEN init ELSE Append(init, last)

\* A compilation that leaves the centralized dependencies out.
GroupDependencies_None(groups, centralizedDeps, i) == <<>>

\* service.dependencyGroups.forEach, from the i-th group on.
RECURSIVE GroupDependencies(_, _, _)
GroupDependencies(groups, centralizedDeps, i) ==
    IF i > Len(groups) THEN <<>>
    ELSE (IF groups[i] \in DOMAIN centralizedDeps
          THEN centralizedDeps[groups[i]] ELSE <<>>)
         \o GroupDependencies(groups, centralizedDeps, i + 1)

\* composeService.depends_on (absent when the list is empty).
DependsOnOf(service, centralizedDeps) ==
    LET dependencies ==
            Unique(service.depends_on
                   \o GroupDependencies(service.dependencyGroups, centralizedDeps, 1)) IN
    [i \in DOMAIN dependencies |->
        [name |-> dependencies[i], condition |-> NoCondition]]

\* compose.services[name] = convertServiceToCompose(...)
ComposeService(name, service, centralizedDeps, converted) ==
    [name |-> name,
     hasPorts |-> converted.hasPorts,
     ports |-> converted.ports,
     healthcheck |-> service.healthcheck,
     depends_on |-> DependsOnOf(service, centralizedDeps)]

(***************************************************************************)
(* addGateway: the gateway's host port and its depends_on.                 *)
(***************************************************************************)

GatewayName == <<"x", "q", "-", "g", "a", "t", "e", "w", "a", "y">>

\* let gatewayPort = 8080
GatewayStartPort == 8080

\* usedPorts.add(parseInt(hostPort)) for every port of every service.
GatewayUsedPorts(services) ==
    UNION {{HostPortOf(services[j].ports[m]) : m \in DOMAIN services[j].ports} :
              j \in DOMAIN services}

\* A gateway that takes 8080 whatever the services bind.
GatewayPort_NoScan(services) == GatewayStartPort

\* while (usedPorts.has(gatewayPort)) gatewayPort++
GatewayPort(services) == FirstFree(GatewayStartPort, GatewayUsedPorts(services))

\* compose.services[name].healthcheck ? 'service_healthy' : 'service_started'
ConditionOf(service) ==
    IF service.healthcheck THEN "service_healthy" ELSE "service_started"

\* gatewayDependsOn: one entry for every key of compose.services.
GatewayDependsOn(services) ==
    [j \in DOMAIN services |->
        [name |-> services[j].name, condition |-> ConditionOf(services[j])]]

\* compose.services['xq-gateway'] = {...}: a key that is there keeps its place.
SetGateway(services, gateway) ==
    IF GatewayName \in ServiceNames(services)
    THEN [j \in DOMAIN services |->
            IF services[j].name = GatewayName THEN gateway ELSE services[j]]
    ELSE Append(services, gateway)

GatewayService(services) ==
    [name |-> GatewayName,
     hasPorts |-> TRUE,
     ports |-> <<Mapping(GatewayPort(services), 80)>>,
     healthcheck |-> FALSE,
     depends_on |-> GatewayDependsOn(services)]

\* if (enableGateway && Object.keys(compose.services).length > 0)
InjectsGateway == enableGateway /\ Len(compose) > 0

Port_3000 == <<"3", "0", "0", "0", ":", "8", "0">>
Port_3001 == <<"3", "0", "0", "1", ":", "8", "0">>
Port_env  == <<"x", ":", "8", "0">>

\* The `ports` a service is written with: absent, empty, or explicit mappings.
ExplicitPorts ==
    {[hasPorts |-> FALSE, ports |-> <<>>],
     [hasPorts |-> TRUE, ports |-> <<>>],
     [hasPorts |-> TRUE, ports |-> <<Port_3000>>],
     [hasPorts |-> TRUE, ports |-> <<Port_3001, Port_env>>]}

ContainerPorts == {0, 80}

PortRangeStarts == {0, 3000, 3001}

ServiceConfigs ==
    {[hasPorts |-> e.hasPorts, ports |-> e.ports, port |-> p, autoPort |-> a,
      healthcheck |-> FALSE, depends_on |-> <<>>, dependencyGroups |-> <<>>] :
        e \in ExplicitPorts, p \in ContainerPorts, a \in BOOLEAN}

GenNames == <<Svc_a, <<"b">>, Svc_c, <<"d">>>>

\* spec.services holding the given configs, under the names of GenNames.
GenServices(configs) ==
    [i \in DOMAIN configs |-> [name |-> GenNames[i], config |-> configs[i]]]

GenInit ==
    /\ \E n \in 0..MaxServices, start \in PortRangeStarts :
          \E configs \in [1..n -> ServiceConfigs] :
             genSpec = [services |-> GenServices(configs),
                        dependencies |-> NoDependencies,
                        portRangeStart |-> start]
    /\ enableGateway = TRUE
    /\ genPc = "call"
    /\ genIndex = 0
    /\ nextPort = 0
    /\ usedPorts = {}
    /\ compose = <<>>

\* generateComposeObject up to the forEach: usedPorts and nextPort are set.
GenerateCall ==
    /\ genPc = "call"
    /\ genPc' = "services"
    /\ usedPorts' = {}
    /\ nextPort' = IF genSpec.portRangeStart # 0 THEN genSpec.portRangeStart
                   ELSE DefaultStartPort
    /\ UNCHANGED <<genSpec, enableGateway, genIndex, compose>>
    /\ UNCHANGED notGenVars

\* One turn of the forEach over Object.entries(spec.services).
ConvertService ==
    /\ genPc = "services"
    /\ genIndex < Len(genSpec.services)
    /\ LET entry == genSpec.services[genIndex + 1]
           converted == ConvertServiceToCompose(entry.config, usedPorts, nextPort) IN
       /\ compose' = Append(compose,
                            ComposeService(entry.name, entry.config,
                                           genSpec.dependencies, converted))
       /\ usedPorts' = converted.usedPorts
       /\ nextPort' = CursorAfter(entry.config, nextPort, converted.usedPorts)
    /\ genIndex' = genIndex + 1
    /\ UNCHANGED <<genSpec, enableGateway, genPc>>
    /\ UNCHANGED notGenVars

\* The forEach is over and no gateway is to be added: the compose object is
\* returned.
GenerateReturn ==
    /\ genPc = "services"
    /\ genIndex = Len(genSpec.services)
    /\ ~InjectsGateway
    /\ genPc' = "done"
    /\ UNCHANGED <<genSpec, enableGateway, genIndex, nextPort, usedPorts, compose>>
    /\ UNCHANGED notGenVars

\* The forEach is over: addGateway, and the compose object is returned.
AddGateway ==
    /\ genPc = "services"
    /\ genIndex = Len(genSpec.services)
    /\ InjectsGateway
    /\ compose' = SetGateway(compose, GatewayService(compose))
    /\ genPc' = "done"
    /\ UNCHANGED <<genSpec, enableGateway, genIndex, nextPort, usedPorts>>
    /\ UNCHANGED notGenVars

GenNext ==
    \/ GenerateCall
    \/ ConvertService
    \/ GenerateReturn
    \/ AddGateway

(***************************************************************************)
(* The specifications given to generateComposeObject when the gateway is   *)
(* looked at: a few services with or without a healthcheck, binding ports  *)
(* around 8080, and the directory of the README's global-config example.   *)
(***************************************************************************)

Svc_api == <<"a", "p", "i">>

Svc_postgres == <<"p", "o", "s", "t", "g", "r", "e", "s">>

Port_5432 == <<"5", "4", "3", "2", ":", "5", "4", "3", "2">>
Port_8080 == <<"8", "0", "8", "0", ":", "8", "0">>
Port_8081 == <<"8", "0", "8", "1", ":", "8", "0">>

\* postgres.service.yml and api.service.yml
ScenarioFiles ==
    {[filename |-> Svc_postgres \o Ext_service_yml,
      data |-> [name |-> NoName, hasPorts |-> TRUE, ports |-> <<Port_5432>>,
                port |-> 0, autoPort |-> TRUE, healthcheck |-> FALSE,
                depends_on |-> <<>>, dependencyGroups |-> <<>>]],
     [filename |-> Svc_api \o Ext_service_yml,
      data |-> [name |-> NoName, hasPorts |-> FALSE, ports |-> <<>>,
                port |-> 3000, autoPort |-> TRUE, healthcheck |-> FALSE,
                depends_on |-> <<>>, dependencyGroups |-> <<"database">>]]}

\* xq.config.yml
ScenarioConfig ==
    [dependencies |-> [group \in {"database"} |-> <<Svc_postgres>>],
     portRangeStart |-> 4000]

GatewayNames == {Svc_a, <<"b">>, GatewayName}

GatewayConfigs ==
    {[hasPorts |-> e.hasPorts, ports |-> e.ports, port |-> e.port, autoPort |-> TRUE,
      healthcheck |-> h, depends_on |-> <<>>, dependencyGroups |-> <<>>] :
        e \in {[hasPorts |-> FALSE, ports |-> <<>>, port |-> 0],
               [hasPorts |-> FALSE, ports |-> <<>>, port |-> 80],
               [hasPorts |-> TRUE, ports |-> <<Port_8080>>, port |-> 0],
               [hasPorts |-> TRUE, ports |-> <<Port_8081, Port_env>>, port |-> 0]},
        h \in BOOLEAN}

GatewayInit ==
    /\ \/ \E n \in 0..MaxServices, start \in {0, GatewayStartPort} :
             \E names \in [1..n -> GatewayNames], configs \in [1..n -> GatewayConfigs] :
                /\ \A i, j \in 1..n : names[i] = names[j] => i = j
                /\ genSpec = [services |-> [i \in 1..n |->
                                               [name |-> names[i], config |-> configs[i]]],
                              dependencies |-> NoDependencies,
                              portRangeStart |-> start]
       \/ \E listing \in Listings(ScenarioFiles) :
             genSpec = LoadFromDirectory(ScenarioFiles, listing, ScenarioConfig).spec
    /\ enableGateway \in BOOLEAN
    /\ genPc = "call"
    /\ genIndex = 0
    /\ nextPort = 0
    /\ usedPorts = {}
    /\ compose = <<>>

(***************************************************************************)
(* ComposeGenerator.applyOverrides.  A service is the function from the    *)
(* names of the fields it has to their values; `environment` is a map from *)
(* variable names to values, numbers among them.                           *)
(***************************************************************************)

\* A YAML number that JSON has no text for (.inf, -.inf, .nan).
Infinity == "Infinity"

Null == "null"

\* JSON.parse(JSON.stringify(x)) of a scalar: a non-finite number comes back
\* as null, every other scalar as itself.
JsonScalar(x) == IF x = Infinity THEN Null ELSE x

\* JSON.parse(JSON.stringify(service))
JsonService(service) ==
    [field \in DOMAIN service |->
        IF field = "environment"
        THEN [key \in DOMAIN service[field] |-> JsonScalar(service[field][key])]
        ELSE service[field]]

\* const merged = JSON.parse(JSON.stringify(spec))
JsonClone(spec) ==
    [services |-> [i \in DOMAIN spec.services |->
                     [name |-> spec.services[i].name,
                      config |-> JsonService(spec.services[i].config)]],
     dependencies |-> spec.dependencies,
     portRangeStart |-> spec.portRangeStart]

\* Object.assign(target, source)
Assign(target, source) ==
    [field \in DOMAIN target \cup DOMAIN source |->
        IF field \in DOMAIN source THEN source[field] ELSE target[field]]

\* The forEach over Object.keys(overrides.services), from the i-th key on.
\* An inherited property (services['constructor']) is truthy too: the
\* assignment then lands on that object and not in the specification.
RECURSIVE OverrideFrom(_, _, _)
OverrideFrom(services, overrides, i) ==
    IF i > Len(overrides) THEN services
    ELSE LET serviceName == overrides[i].name IN
         OverrideFrom(
            IF Has(services, serviceName) /\ serviceName \in ServiceNames(services)
            THEN PutService(services, serviceName,
                            Assign(ServiceConfig(services, serviceName),
                                   overrides[i].config))
            ELSE services,
            overrides, i + 1)

\* applyOverrides(spec, overrides)
ApplyOverrides(spec, overrides) ==
    LET merged == JsonClone(spec) IN
    [merged EXCEPT !.services = OverrideFrom(merged.services, overrides, 1)]

MaxSpecServices == 2

Env_A == [key \in {"A"} |-> "1"]
Env_B == [key \in {"B"} |-> "2"]
Env_Inf == [key \in {"A"} |-> Infinity]

\* The services of the specifications, as a YAML file gives them.
OverrideConfigs ==
    {[field \in {"image"} |-> "nginx"],
     [field \in {"image", "tag"} |-> IF field = "image" THEN "nginx" ELSE "1.0"],
     [image |-> "nginx", environment |-> Env_A],
     [image |-> "nginx", tag |-> "1.0", environment |-> Env_Inf]}

\* The entries of an overrides file (JSON).
OverrideEntries ==
    {[field \in {"tag"} |-> "latest"],
     [tag |-> "latest", environment |-> Env_B],
     [field \in {"environment"} |-> Env_B]}

OverrideTargets == <<Svc_a, <<"b">>, Name_constructor>>

OverrideInit ==
    /\ \E n \in 0..MaxSpecServices, start \in {0, 4000} :
          \E configs \in [1..n -> OverrideConfigs] :
             ovSpec = [services |-> [i \in 1..n |->
                                       [name |-> OverrideTargets[i],
                                        config |-> configs[i]]],
                       dependencies |-> NoDependencies,
                       portRangeStart |-> start]
    /\ \E targets \in SUBSET (DOMAIN OverrideTargets) :
          \E entries \in [targets -> OverrideEntries] :
             ovOverrides =
                 LET kept == SelectSeq([i \in DOMAIN OverrideTargets |-> i],
                                       LAMBDA i : i \in targets) IN
                 [k \in DOMAIN kept |->
                    [name |-> OverrideTargets[kept[k]], config |-> entries[kept[k]]]]
    /\ ovPc = "call"
    /\ ovMerged = NoFileSpec

\* applyOverrides(spec, overrides): the whole call.
ApplyOverridesCall ==
    /\ ovPc = "call"
    /\ ovMerged' = ApplyOverrides(ovSpec, ovOverrides)
    /\ ovPc' = "done"
    /\ UNCHANGED <<ovSpec, ovOverrides>>
    /\ UNCHANGED notOverrideVars

OverrideNext ==
    \/ ApplyOverridesCall

(***************************************************************************)
(* The gateway's nginx configuration: parseRoutes, the path-based location *)
(* blocks, the fallback locations and generateNginxConfig.  The            *)
(* configuration is kept as its blocks, in the order they are written: an  *)
(* upstream is its name and port; a location is its `location` text, the   *)
(* upstream of an unconditional proxy_pass (NoName when it has none) and    *)
(* its `if ($request_method = M)` blocks.                                  *)
(***************************************************************************)

RECURSIVE Flatten(_)
Flatten(seqs) == IF seqs = <<>> THEN <<>> ELSE seqs[1] \o Flatten(Tail(seqs))

\* The part of s after its last c (all of s when it has no c).
RECURSIVE AfterLast(_, _)
AfterLast(s, c) ==
    IF \A k \in DOMAIN s : s[k] # c THEN s ELSE AfterLast(Tail(s), c)

\* s.split(c)[0]
RECURSIVE Before(_, _)
Before(s, c) ==
    IF s = <<>> \/ s[1] = c THEN <<>> ELSE <<s[1]>> \o Before(Tail(s), c)

\* extractContainerPort(ports)
ExtractContainerPort(hasPorts, ports) ==
    IF ~hasPorts \/ Len(ports) = 0 THEN 80
    ELSE LET portPart == Before(AfterLast(ports[1], ":"), "/")
             digits == LeadingDigits(portPart) IN
         IF digits = <<>> THEN 80 ELSE ParseInt(digits)

DefaultMethods == <<"GET", "POST", "PUT", "DELETE", "PATCH">>

\* route.methods || ['GET', 'POST', 'PUT', 'DELETE', 'PATCH']: an empty array
\* is truthy.
MethodsOf(route) == IF route.hasMethods THEN route.methods ELSE DefaultMethods

\* The routes parseRoutes pushes for one service.
ServiceRoutes(entry) ==
    IF entry.name = GatewayName \/ ~entry.hasRoutes THEN <<>>
    ELSE LET withPaths == SelectSeq(entry.routes, LAMBDA route : route.hasPaths) IN
         [k \in DOMAIN withPaths |->
            [serviceName |-> entry.name,
             port |-> ExtractContainerPort(entry.hasPorts, entry.ports),
             methods |-> MethodsOf(withPaths[k]),
             paths |-> withPaths[k].paths]]

\* parseRoutes(servicesMap)
ParseRoutes(servicesMap) ==
    Flatten([i \in DOMAIN servicesMap |-> ServiceRoutes(servicesMap[i])])

\* path.replace(/\//g, '\\/')
RECURSIVE EscapeSlashes(_)
EscapeSlashes(path) ==
    IF path = <<>> THEN <<>>
    ELSE (IF path[1] = "/" THEN <<"\\", "/">> ELSE <<path[1]>>)
         \o EscapeSlashes(Tail(path))

\* convertToNginxPath(path)
ConvertToNginxPath(path) ==
    IF EndsWith(path, <<"/", "*">>)
    THEN <<"~", " ", "^">> \o EscapeSlashes(SubSeq(path, 1, Len(path) - 2))
         \o <<"(", "\\", "/", ".", "*", ")", "?", "$">>
    ELSE <<"~", " ", "^">> \o EscapeSlashes(path)
         \o <<"(", "\\", "/", "|", "$", ")">>

\* pathGroups.get(path): a route once for every time its paths name the path.
RouteConfigs(routes, path) ==
    Flatten([r \in DOMAIN routes |->
                SelectSeq([k \in DOMAIN routes[r].paths |->
                              IF routes[r].paths[k] = path THEN routes[r]
                              ELSE [serviceName |-> NoName]],
                          LAMBDA config : config.serviceName # NoName)])

\* Array.from(methodGroups.get(method)): the services in insertion order.
MethodServices(routeConfigs, method) ==
    Unique(LET declaring == SelectSeq(routeConfigs,
                                LAMBDA config : method \in Range(config.methods)) IN
           [k \in DOMAIN declaring |-> declaring[k].serviceName])

\* `${name}_upstream`
UpstreamOf(name) == name \o <<"_upstream">>

\* A block that proxies a method to the last service that declared it.
MethodBlock_LastService(routeConfigs, method) ==
    LET services == MethodServices(routeConfigs, method) IN
    [method |-> method, proxy_pass |-> UpstreamOf(services[Len(services)])]

\* if ($request_method = M) { proxy_pass http://${services[0]}_upstream; }
MethodBlock(routeConfigs, method) ==
    [method |-> method,
     proxy_pass |-> UpstreamOf(MethodServices(routeConfigs, method)[1])]

\* The location block of one path group.
LocationBlock(routes, path) ==
    LET routeConfigs == RouteConfigs(routes, path)
        methodGroups == Unique(Flatten([k \in DOMAIN routeConfigs |->
                                           routeConfigs[k].methods])) IN
    IF Len(methodGroups) = 1 /\ Len(routeConfigs) = 1
    THEN [location |-> ConvertToNginxPath(path),
          proxy_pass |-> UpstreamOf(routeConfigs[1].serviceName),
          conditionals |-> <<>>]
    ELSE [location |-> ConvertToNginxPath(path),
          proxy_pass |-> NoName,
          conditionals |-> [k \in DOMAIN methodGroups |->
                              MethodBlock(routeConfigs, methodGroups[k])]]

\* generatePathBasedLocations(routes): one block for every key of pathGroups.
GeneratePathBasedLocations(routes) ==
    LET pathGroups == Unique(Flatten([r \in DOMAIN routes |-> routes[r].paths])) IN
    [k \in DOMAIN pathGroups |-> LocationBlock(routes, pathGroups[k])]

\* The services generateNginxConfig and its helpers do not skip.
Backends(servicesMap) ==
    SelectSeq(servicesMap, LAMBDA entry : entry.name # GatewayName)

\* A gateway that has a fallback location only for the services without routes.
FallbackServices_WithoutRoutes(servicesMap) ==
    SelectSeq(Backends(servicesMap), LAMBDA entry : ~entry.hasRoutes)

FallbackServices(servicesMap) == Backends(servicesMap)

\* generateServiceNameLocations(servicesMap)
GenerateServiceNameLocations(servicesMap) ==
    LET backends == FallbackServices(servicesMap) IN
    [k \in DOMAIN backends |->
        [location |-> <<"/">> \o backends[k].name \o <<"/">>,
         proxy_pass |-> UpstreamOf(backends[k].name) \o <<"/">>,
         conditionals |-> <<>>]]

\* generateNginxConfig(servicesMap, outPath): the content of the file.
GenerateNginxConfig(servicesMap) ==
    LET backends == Backends(servicesMap)
        routes == ParseRoutes(servicesMap) IN
    [upstreams |-> [k \in DOMAIN backends |->
                      [name |-> UpstreamOf(backends[k].name),
                       server |-> backends[k].name,
                       port |-> ExtractContainerPort(backends[k].hasPorts,
                                                     backends[k].ports)]],
     locations |-> (IF Len(routes) > 0 THEN GeneratePathBasedLocations(routes)
                    ELSE <<>>)
                   \o GenerateServiceNameLocations(servicesMap)]

MaxRules == 2

Path_x == <<"/", "x">>
Path_y == <<"/", "y", "/", "*">>

\* The route rules a service file can hold: methods absent, empty or listed;
\* paths absent or listed.
RouteRules ==
    {[hasMethods |-> FALSE, methods |-> <<>>, hasPaths |-> TRUE, paths |-> <<Path_x>>],
     [hasMethods |-> TRUE, methods |-> <<>>, hasPaths |-> TRUE, paths |-> <<Path_x>>],
     [hasMethods |-> TRUE, methods |-> <<"GET">>, hasPaths |-> TRUE, paths |-> <<Path_x>>],
     [hasMethods |-> TRUE, methods |-> <<"POST">>, hasPaths |-> TRUE, paths |-> <<Path_x>>],
     [hasMethods |-> TRUE, methods |-> <<"POST", "GET">>, hasPaths |-> TRUE,
      paths |-> <<Path_y, Path_x>>],
     [hasMethods |-> TRUE, methods |-> <<"GET">>, hasPaths |-> TRUE, paths |-> <<Path_y>>],
     [hasMethods |-> TRUE, methods |-> <<"GET">>, hasPaths |-> FALSE, paths |-> <<>>]}

\* The keys of servicesMap, in order, and the ports each service has.
ServiceLists ==
    {<<Svc_a>>, <<GatewayName>>, <<Svc_a, Svc_c>>, <<Svc_a, GatewayName>>,
     <<GatewayName, Svc_c>>}

PortsOf(name) ==
    IF name = Svc_a THEN [hasPorts |-> TRUE, ports |-> <<Port_3001>>]
    ELSE IF name = GatewayName THEN [hasPorts |-> TRUE, ports |-> <<Port_env>>]
    ELSE [hasPorts |-> FALSE, ports |-> <<>>]

NoConf == [upstreams |-> <<>>, locations |-> <<>>]

NginxInit ==
    /\ \E names \in ServiceLists :
          \E count \in [DOMAIN names -> 0..MaxRules], withRoutes \in [DOMAIN names -> BOOLEAN] :
             \E rules \in [{<<i, k>> \in (DOMAIN names) \X (1..MaxRules) : k <= count[i]}
                              -> RouteRules] :
                /\ \A i \in DOMAIN names : ~withRoutes[i] => count[i] = 0
                /\ nginxServices =
                      [i \in DOMAIN names |->
                         [name |-> names[i],
                          hasPorts |-> PortsOf(names[i]).hasPorts,
                          ports |-> PortsOf(names[i]).ports,
                          hasRoutes |-> withRoutes[i],
                          routes |-> [k \in 1..count[i] |-> rules[<<i, k>>]]]]
    /\ nginxPc = "call"
    /\ conf = NoConf

\* generateNginxConfig(servicesMap, outPath): the whole call.
GenerateNginxConfigCall ==
    /\ nginxPc = "call"
    /\ conf' = GenerateNginxConfig(nginxServices)
    /\ nginxPc' = "done"
    /\ UNCHANGED nginxServices
    /\ UNCHANGED notNginxVars

NginxNext ==
    \/ GenerateNginxConfigCall

(***************************************************************************)
(* ComposeInvoker.detectDockerCompose.  The calls follow one another (the  *)
(* CLI awaits each operation); what is on the PATH and whether the compose *)
(* plugin answers can differ from one probe to the next.                   *)
(***************************************************************************)

MaxCalls == 3

\* this.dockerComposeCli = null
NullCli == [command |-> "null", args |-> <<>>]

\* { command: 'docker', args: ['compose'] }
PrimaryCli == [command |-> "docker", args |-> <<"compose">>]

\* { command: 'docker-compose', args: [] }
LegacyCli == [command |-> "docker-compose", args |-> <<>>]

\* throw new Error('Neither "docker compose" nor "docker-compose" command found...')
ToolingUnavailable == [command |-> "threw", args |-> <<>>]

Probe_WhichDocker == "which docker"
Probe_Version == "docker compose --version"
Probe_WhichLegacy == "which docker-compose"

Probed(probe, ok) == Append(probes, [probe |-> probe, ok |-> ok])

\* The callers of detectDockerCompose: the operations of the invoker, and a
\* direct call.
Operations == {"detect", "up", "down", "pull", "logs", "ps"}

NoLaunch == [command |-> "none", args |-> <<>>]

\* this.execCommand(cli.command, [...cli.args, '-f', composeFile, <operation>, ...])
\* with the default options of the operation.
Launch(op, cli) ==
    [command |-> cli.command,
     args |-> cli.args \o <<"-f", "xq-compose.yml">> \o
              (CASE op = "up" -> <<"up", "-d", "--pull", "missing", "--remove-orphans">>
                 [] op = "logs" -> <<"logs", "--tail", "100">>
                 [] OTHER -> <<op>>)]

\* What the operation does once the launcher is known.
Launched(op, cli) == IF op = "detect" THEN launched ELSE Launch(op, cli)

DetectInit ==
    /\ dockerComposeCli = NullCli
    /\ detectPc = "idle"
    /\ operation = "detect"
    /\ probes = <<>>
    /\ detectResult = NullCli
    /\ launched = NoLaunch
    /\ detectCalls = 0
    /\ composeExists \in BOOLEAN

\* The compiled document is written (generate) or removed between and during
\* the operations.
ComposeFileChanges ==
    /\ composeExists' = ~composeExists
    /\ UNCHANGED <<dockerComposeCli, detectPc, operation, probes, detectResult,
                   launched, detectCalls>>
    /\ UNCHANGED notDetectVars

\* An invoker whose `up` alone looks for the compiled document.
FileMissing_OnlyUp(op) == op = "up" /\ ~composeExists

\* validateComposeFile throws: every operation calls it first; a direct call
\* of detectDockerCompose has no file.
FileMissing(op) == op # "detect" /\ ~composeExists

\* throw new Error(`Docker compose file not found: ${composeFile}`)
ComposeFileNotFound == [command |-> "invalid-file", args |-> <<>>]

\* await this.validateComposeFile(composeFile) rejects: the operation fails
\* before any detection.
ValidateRejects(op) ==
    /\ detectPc = "idle"
    /\ detectCalls < MaxCalls
    /\ FileMissing(op)
    /\ operation' = op
    /\ probes' = <<>>
    /\ detectResult' = ComposeFileNotFound
    /\ detectCalls' = detectCalls + 1
    /\ UNCHANGED <<dockerComposeCli, detectPc, launched, composeExists>>
    /\ UNCHANGED notDetectVars

\* A launcher that is looked for again on every call.
IsCached_Never == FALSE

\* if (this.dockerComposeCli)
IsCached == dockerComposeCli # NullCli

\* detectDockerCompose() with the cache set: it is returned, and the operation
\* runs its command with it.
DetectCached(op) ==
    /\ detectPc = "idle"
    /\ detectCalls < MaxCalls
    /\ IsCached
    /\ ~FileMissing(op)
    /\ operation' = op
    /\ probes' = <<>>
    /\ detectResult' = dockerComposeCli
    /\ launched' = Launched(op, dockerComposeCli)
    /\ detectCalls' = detectCalls + 1
    /\ UNCHANGED <<dockerComposeCli, detectPc, composeExists>>
    /\ UNCHANGED notDetectVars

\* detectDockerCompose() with no cache: up to `await which('docker')`.
DetectCall(op) ==
    /\ detectPc = "idle"
    /\ detectCalls < MaxCalls
    /\ ~IsCached
    /\ ~FileMissing(op)
    /\ operation' = op
    /\ probes' = <<>>
    /\ detectPc' = "which-docker"
    /\ UNCHANGED <<dockerComposeCli, detectResult, launched, detectCalls, composeExists>>
    /\ UNCHANGED notDetectVars

\* which('docker') settles; when it rejects, catch (error) {} leads to the
\* legacy launcher.
WhichDocker(found) ==
    /\ detectPc = "which-docker"
    /\ probes' = Probed(Probe_WhichDocker, found)
    /\ detectPc' = IF found THEN "version" ELSE "which-legacy"
    /\ UNCHANGED <<dockerComposeCli, operation, detectResult, launched, detectCalls,
                   composeExists>>
    /\ UNCHANGED notDetectVars

\* execCommand('docker', ['compose', '--version']) resolves (exit code 0):
\* the primary launcher is cached and returned.
VersionResolves ==
    /\ detectPc = "version"
    /\ probes' = Probed(Probe_Version, TRUE)
    /\ dockerComposeCli' = PrimaryCli
    /\ detectResult' = PrimaryCli
    /\ launched' = Launched(operation, PrimaryCli)
    /\ detectPc' = "idle"
    /\ detectCalls' = detectCalls + 1
    /\ UNCHANGED <<operation, composeExists>>
    /\ UNCHANGED notDetectVars

\* execCommand rejects: another exit code, a spawn error, or the 5 s timeout.
VersionRejects ==
    /\ detectPc = "version"
    /\ probes' = Probed(Probe_Version, FALSE)
    /\ detectPc' = "which-legacy"
    /\ UNCHANGED <<dockerComposeCli, operation, detectResult, launched, detectCalls,
                   composeExists>>
    /\ UNCHANGED notDetectVars

\* A detection that answers with the legacy launcher whether it is found or not.
LegacyOutcome_AlwaysFound(found) == LegacyCli

\* The second try block: the legacy launcher, or the error thrown.
LegacyOutcome(found) == IF found THEN LegacyCli ELSE ToolingUnavailable

\* which('docker-compose') settles: the legacy launcher is cached and
\* returned, or the call throws.
WhichLegacy(found) ==
    /\ detectPc = "which-legacy"
    /\ probes' = Probed(Probe_WhichLegacy, found)
    /\ LET outcome == LegacyOutcome(found) IN
       /\ dockerComposeCli' = IF outcome = ToolingUnavailable THEN dockerComposeCli
                              ELSE outcome
       /\ detectResult' = outcome
       /\ launched' = IF outcome = ToolingUnavailable THEN launched
                      ELSE Launched(operation, outcome)
    /\ detectPc' = "idle"
    /\ detectCalls' = detectCalls + 1
    /\ UNCHANGED <<operation, composeExists>>
    /\ UNCHANGED notDetectVars

DetectNext ==
    \/ \E op \in Operations : ValidateRejects(op)
    \/ \E op \in Operations : DetectCached(op)
    \/ \E op \in Operations : DetectCall(op)
    \/ \E found \in BOOLEAN : WhichDocker(found)
    \/ VersionResolves
    \/ VersionRejects
    \/ \E found \in BOOLEAN : WhichLegacy(found)
    \/ ComposeFileChanges

(***************************************************************************)
(* The `up` command of the CLI: pull, up, the search for the source        *)
(* directory, the detection of the test containers and the wait for them.  *)
(* Every await is a step; the calls of the invoker settle as the           *)
(* environment decides.                                                    *)
(***************************************************************************)

\* possibleSourceDirs, and null when none is a directory.
SourceDirs == {"test-env", "services", "composeDir", "null"}

\* What detectTestContainers resolves to.
DetectedContainers == {<<>>, <<Svc_a>>, <<Svc_a, Svc_c>>}

UpInit ==
    /\ shouldPull \in BOOLEAN
    /\ upPc = "call"
    /\ events = <<>>
    /\ sourcePath = "null"
    /\ detected = <<>>
    /\ exitCode = "none"

\* composeInvoker.up(composeFile, { pull: shouldPull })
UpCalled == <<"up", IF shouldPull THEN "pull: true" ELSE "pull: false">>

\* The action starts: the pull when shouldPull, the start otherwise.
UpAction ==
    /\ upPc = "call"
    /\ events' = IF shouldPull THEN <<"pull">> ELSE UpCalled
    /\ upPc' = IF shouldPull THEN "pull" ELSE "up"
    /\ UNCHANGED <<shouldPull, sourcePath, detected, exitCode>>
    /\ UNCHANGED notUpVars

\* composeInvoker.pull resolves: the start follows.
PullResolves ==
    /\ upPc = "pull"
    /\ events' = events \o <<"pull resolved">> \o UpCalled
    /\ upPc' = "up"
    /\ UNCHANGED <<shouldPull, sourcePath, detected, exitCode>>
    /\ UNCHANGED notUpVars

\* A command that a failed pull ends.
AfterPullFailure_Abort == "exit"

\* catch (pullErr) { console.warn(...) }: the action goes on to the start.
AfterPullFailure == "up"

\* composeInvoker.pull rejects (the compose file, the launcher or the pull).
PullRejects ==
    /\ upPc = "pull"
    /\ upPc' = AfterPullFailure
    /\ events' = events \o <<"pull rejected", "warn", "warn">>
                  \o (IF AfterPullFailure = "up" THEN UpCalled ELSE <<>>)
    /\ exitCode' = IF AfterPullFailure = "up" THEN exitCode ELSE "3"
    /\ UNCHANGED <<shouldPull, sourcePath, detected>>
    /\ UNCHANGED notUpVars

\* composeInvoker.up resolves: the message, then the first fs.stat.
StartResolves ==
    /\ upPc = "up"
    /\ events' = events \o <<"up resolved", "Services started successfully!">>
    /\ upPc' = "stat"
    /\ UNCHANGED <<shouldPull, sourcePath, detected, exitCode>>
    /\ UNCHANGED notUpVars

\* composeInvoker.up rejects: the outer catch, process.exit(3).
StartRejects ==
    /\ upPc = "up"
    /\ events' = events \o <<"up rejected", "Failed to run up">>
    /\ upPc' = "exit"
    /\ exitCode' = "3"
    /\ UNCHANGED <<shouldPull, sourcePath, detected>>
    /\ UNCHANGED notUpVars

\* The for loop over possibleSourceDirs, then detectTestContainers is called.
FindSourcePath(dir) ==
    /\ upPc = "stat"
    /\ sourcePath' = dir
    /\ events' = Append(events, "detectTestContainers")
    /\ upPc' = "detect"
    /\ UNCHANGED <<shouldPull, detected, exitCode>>
    /\ UNCHANGED notUpVars

\* detectTestContainers resolves: with none the action returns, otherwise
\* waitForTestContainers is called.
DetectResolves(containers) ==
    /\ upPc = "detect"
    /\ detected' = containers
    /\ IF Len(containers) > 0
       THEN /\ events' = events \o <<"detected", "waitForTestContainers">>
            /\ upPc' = "wait"
            /\ UNCHANGED exitCode
       ELSE /\ events' = Append(events, "none detected")
            /\ upPc' = "exit"
            /\ exitCode' = "0"
    /\ UNCHANGED <<shouldPull, sourcePath>>
    /\ UNCHANGED notUpVars

\* detectTestContainers or waitForTestContainers rejects: a warning, and the
\* action returns.
DetectRejects ==
    /\ upPc \in {"detect", "wait"}
    /\ events' = events \o <<"rejected", "warn">>
    /\ upPc' = "exit"
    /\ exitCode' = "0"
    /\ UNCHANGED <<shouldPull, sourcePath, detected>>
    /\ UNCHANGED notUpVars

\* waitForTestContainers resolves: process.exit(1) unless all passed.
WaitResolves(allPassed) ==
    /\ upPc = "wait"
    /\ events' = Append(events, IF allPassed THEN "all passed" ELSE "some failed")
    /\ upPc' = "exit"
    /\ exitCode' = IF allPassed THEN "0" ELSE "1"
    /\ UNCHANGED <<shouldPull, sourcePath, detected>>
    /\ UNCHANGED notUpVars

UpNext ==
    \/ UpAction
    \/ PullResolves
    \/ PullRejects
    \/ StartResolves
    \/ StartRejects
    \/ \E dir \in SourceDirs : FindSourcePath(dir)
    \/ \E containers \in DetectedContainers : DetectResolves(containers)
    \/ DetectRejects
    \/ \E allPassed \in BOOLEAN : WaitResolves(allPassed)

(***************************************************************************)
(* convertServiceToCompose, field by field.  A value of a descriptor is    *)
(* what YAML gives: nothing, null, a string, a list or a map; the compiled *)
(* entry is the function from the fields it has to their values.           *)
(***************************************************************************)

Undefined == [kind |-> "undefined", items |-> <<>>]
NullValue == [kind |-> "null", items |-> <<>>]
Text(chars) == [kind |-> "string", items |-> chars]
List(items) == [kind |-> "list", items |-> items]
Map(entries) == [kind |-> "map", items |-> entries]

\* if (value): an empty list and an empty map are truthy, an empty string,
\* null and undefined are not.
Truthy(value) ==
    /\ value.kind \notin {"undefined", "null"}
    /\ ~(value.kind = "string" /\ value.items = <<>>)

\* The fields copied as they are.
VerbatimFields == {"environment", "volumes", "command", "healthcheck"}

\* The fields of the compiled entry besides image and networks.
ConvertFields(service, centralizedDeps, used, currentPort) ==
    LET converted == ConvertServiceToCompose(service, used, currentPort)
        dependencies == DependsOnOf(service, centralizedDeps)
        fields == {f \in VerbatimFields : Truthy(service[f])}
                  \cup (IF converted.hasPorts THEN {"ports"} ELSE {})
                  \cup (IF Len(dependencies) > 0 THEN {"depends_on"} ELSE {}) IN
    [f \in fields |->
        CASE f = "ports" -> List(converted.ports)
          [] f = "depends_on" ->
                List([i \in DOMAIN dependencies |-> dependencies[i].name])
          [] OTHER -> service[f]]

NoFields == [f \in {} |-> Undefined]

EnvironmentValues == {Undefined, NullValue, Map(<<>>), Map(<<"A">>)}
VolumesValues == {Undefined, List(<<>>), List(<<"/data:/data">>)}
CommandValues == {Undefined, Text(<<>>), Text(<<"r", "u", "n">>),
                  List(<<>>), List(<<"run">>)}
HealthcheckValues == {Undefined, Map(<<>>), Map(<<"test">>)}

\* The dependencies of xq.config.yml in the conversion: one group, empty.
EmptyGroup == [group \in {"g"} |-> <<>>]

ConvertInit ==
    /\ \E e \in ExplicitPorts, p \in ContainerPorts,
          env \in EnvironmentValues, vol \in VolumesValues,
          cmd \in CommandValues, hc \in HealthcheckValues,
          deps \in {<<>>, <<Svc_a>>, <<Svc_a, Svc_a>>},
          groups \in {<<>>, <<"g">>} :
          descriptor = [hasPorts |-> e.hasPorts, ports |-> e.ports, port |-> p,
                        autoPort |-> TRUE, environment |-> env, volumes |-> vol,
                        command |-> cmd, healthcheck |-> hc, depends_on |-> deps,
                        dependencyGroups |-> groups]
    /\ convertPc = "call"
    /\ composeService = NoFields

\* composeGenerator.convertServiceToCompose(service, centralizedDeps)
ConvertCall ==
    /\ convertPc = "call"
    /\ composeService' = ConvertFields(descriptor, EmptyGroup, {}, DefaultStartPort)
    /\ convertPc' = "done"
    /\ UNCHANGED descriptor
    /\ UNCHANGED notConvertVars

ConvertNext == ConvertCall

ConvertIdle ==
    /\ descriptor = [hasPorts |-> FALSE, ports |-> <<>>, port |-> 0,
                     autoPort |-> TRUE, environment |-> Undefined,
                     volumes |-> Undefined, command |-> Undefined,
                     healthcheck |-> Undefined, depends_on |-> <<>>,
                     dependencyGroups |-> <<>>]
    /\ convertPc = "call"
    /\ composeService = NoFields

(***************************************************************************)
(* detectTestContainers: the scan of the source directory for `.test.`     *)
(* descriptor files, and the fallback on the names of the services.        *)
(***************************************************************************)

UpperCase == <<"A", "B", "C", "D", "E", "F", "G", "H", "I", "J", "K", "L", "M",
               "N", "O", "P", "Q", "R", "S", "T", "U", "V", "W", "X", "Y", "Z">>
LowerCase == <<"a", "b", "c", "d", "e", "f", "g", "h", "i", "j", "k", "l", "m",
               "n", "o", "p", "q", "r", "s", "t", "u", "v", "w", "x", "y", "z">>

\* String.prototype.toLowerCase
ToLowerCase(text) ==
    [k \in DOMAIN text |->
        IF \E u \in DOMAIN UpperCase : UpperCase[u] = text[k]
        THEN LowerCase[CHOOSE u \in DOMAIN UpperCase : UpperCase[u] = text[k]]
        ELSE text[k]]

W_keeper == <<"k", "e", "e", "p", "e", "r">>
W_e2e == <<"e", "2", "e">>
W_testDash == <<"t", "e", "s", "t", "-">>
W_test == <<"t", "e", "s", "t">>
W_dotTest == <<".", "t", "e", "s", "t", ".">>
W_xq == <<"x", "q", "-">>
W_dashService == <<"-", "s", "e", "r", "v", "i", "c", "e">>
Ext_yaml == <<".", "y", "a", "m", "l">>

\* A heuristic that takes every name with "test" in it.
IsTestName_AnyTest(serviceName) ==
    LET nameLower == ToLowerCase(serviceName) IN
    Includes(nameLower, W_keeper) \/ Includes(nameLower, W_e2e)
        \/ Includes(nameLower, W_test)

\* The three branches of the fallback loop.
IsTestName(serviceName) ==
    LET nameLower == ToLowerCase(serviceName) IN
    \/ Includes(nameLower, W_keeper)
    \/ Includes(nameLower, W_e2e)
    \/ StartsWith(nameLower, W_testDash) \/ nameLower = W_test

\* The fallback: the services whose name looks like a test container.
DetectByName(services) == SelectSeq(services, IsTestName)

\* The filter of the directory listing.
IsTestFile(file) ==
    /\ Includes(file, W_dotTest)
    /\ \/ EndsWith(file, Ext_yml) \/ EndsWith(file, Ext_yaml)
       \/ EndsWith(file, Ext_service_yml) \/ EndsWith(file, Ext_service_yaml)

\* testFile.split('.test.')[0]
RECURSIVE BeforeWord(_, _)
BeforeWord(text, word) ==
    IF text = <<>> \/ StartsWith(text, word) THEN <<>>
    ELSE <<text[1]>> \o BeforeWord(Tail(text), word)

\* baseName: the part before '.test.', without a leading "xq-".
BaseName(testFile) ==
    LET baseName == BeforeWord(testFile, W_dotTest) IN
    IF StartsWith(baseName, W_xq)
    THEN SubSeq(baseName, Len(W_xq) + 1, Len(baseName)) ELSE baseName

\* The condition of the inner loop over the services.
NameMatches(serviceName, baseName) ==
    LET serviceNameLower == ToLowerCase(serviceName)
        baseNameLower == ToLowerCase(baseName) IN
    \/ serviceNameLower = baseNameLower
    \/ Includes(serviceNameLower, baseNameLower)
    \/ Includes(baseNameLower, serviceNameLower)
    \/ serviceNameLower = W_xq \o baseNameLower
    \/ serviceNameLower = baseNameLower \o W_dashService

\* What one test file adds to testContainers: the first service that
\* matches, else the service "xq-" + baseName when there is one.
ServiceOfFile(services, testFile) ==
    LET baseName == BaseName(testFile)
        matching == SelectSeq(services, LAMBDA n : NameMatches(n, baseName)) IN
    IF matching # <<>> THEN <<matching[1]>>
    ELSE IF W_xq \o baseName \in Range(services) THEN <<W_xq \o baseName>>
    ELSE <<>>

\* The scan: for (const testFile of testFiles), then [...new Set(testContainers)].
RECURSIVE ServicesOfFiles(_, _)
ServicesOfFiles(services, testFiles) ==
    IF testFiles = <<>> THEN <<>>
    ELSE ServiceOfFile(services, testFiles[1])
         \o ServicesOfFiles(services, Tail(testFiles))

DetectByFiles(services, testFiles) == Unique(ServicesOfFiles(services, testFiles))

Svc_xq_keeper == <<"x", "q", "-", "k", "e", "e", "p", "e", "r">>
Svc_E2E_run == <<"E", "2", "E", "-", "r", "u", "n">>
Svc_test_db == <<"t", "e", "s", "t", "-", "d", "b">>
Svc_Test == <<"T", "e", "s", "t">>
Svc_nginx_test == <<"n", "g", "i", "n", "x", "-", "t", "e", "s", "t">>
Svc_web == <<"w", "e", "b">>

\* The services a compiled document may have, in its order.
ComposeNames ==
    <<Svc_xq_keeper, Svc_E2E_run, Svc_test_db, Svc_Test, Svc_nginx_test, Svc_web>>

File_keeper_test == <<"k", "e", "e", "p", "e", "r", ".", "t", "e", "s", "t", ".", "y", "a", "m", "l">>
File_web_service == <<"w", "e", "b", ".", "s", "e", "r", "v", "i", "c", "e", ".", "y", "m", "l">>
File_db_test == <<"d", "b", ".", "t", "e", "s", "t", ".", "s", "e", "r", "v", "i", "c", "e", ".", "y", "m", "l">>

\* The files a source directory may have, in the order readdir lists them.
SourceFiles == <<File_db_test, File_keeper_test, File_web_service>>

\* The subsequence of seq at the positions in S.
Pick(seq, S) == SelectSeq(seq, LAMBDA x : \E k \in S : seq[k] = x)

TestDetectInit ==
    /\ tdSource \in {"null", "missing", "file", "directory"}
    /\ \E S \in SUBSET DOMAIN SourceFiles :
          /\ tdSource # "directory" => S = {}
          /\ tdFiles = Pick(SourceFiles, S)
    /\ \E S \in SUBSET DOMAIN ComposeNames : tdServices = Pick(ComposeNames, S)
    /\ tdPc = "call"
    /\ tdResult = <<>>
    /\ tdOutcome = "none"

\* return, with the statement taken
TestDetectReturn(result, outcome) ==
    /\ tdPc' = "done"
    /\ tdResult' = result
    /\ tdOutcome' = outcome

\* detectTestContainers(composeFile, sourcePath): if (sourcePath)
TestDetectCall ==
    /\ tdPc = "call"
    /\ tdPc' = IF tdSource = "null" THEN "fallback" ELSE "stat"
    /\ UNCHANGED <<tdSource, tdFiles, tdServices, tdResult, tdOutcome>>
    /\ UNCHANGED notTestDetectVars

\* await fs.stat(sourcePath): a directory is scanned; a path that is missing
\* (the catch) or no directory leads to the fallback.
StatSettles ==
    /\ tdPc = "stat"
    /\ tdPc' = IF tdSource = "directory" THEN "readdir" ELSE "fallback"
    /\ UNCHANGED <<tdSource, tdFiles, tdServices, tdResult, tdOutcome>>
    /\ UNCHANGED notTestDetectVars

\* await fs.readdir(sourcePath) resolves: without test files the call returns
\* [], otherwise the compiled document is read.
ReaddirResolves ==
    /\ tdPc = "readdir"
    /\ IF SelectSeq(tdFiles, IsTestFile) = <<>>
       THEN TestDetectReturn(<<>>, "no test files")
       ELSE /\ tdPc' = "read"
            /\ UNCHANGED <<tdResult, tdOutcome>>
    /\ UNCHANGED <<tdSource, tdFiles, tdServices>>
    /\ UNCHANGED notTestDetectVars

\* fs.readdir, or reading and parsing the compiled document inside the scan,
\* throws: the inner catch leads to the fallback.
ScanThrows ==
    /\ tdPc \in {"readdir", "read"}
    /\ tdPc' = "fallback"
    /\ UNCHANGED <<tdSource, tdFiles, tdServices, tdResult, tdOutcome>>
    /\ UNCHANGED notTestDetectVars

\* The compiled document is read in the scan: the services of the test files.
ScanReturns ==
    /\ tdPc = "read"
    /\ TestDetectReturn(DetectByFiles(tdServices, SelectSeq(tdFiles, IsTestFile)),
                        "test files")
    /\ UNCHANGED <<tdSource, tdFiles, tdServices>>
    /\ UNCHANGED notTestDetectVars

\* The fallback reads the compiled document: the services named like tests.
FallbackReturns ==
    /\ tdPc = "fallback"
    /\ TestDetectReturn(DetectByName(tdServices), "names")
    /\ UNCHANGED <<tdSource, tdFiles, tdServices>>
    /\ UNCHANGED notTestDetectVars

\* The fallback cannot read or parse the compiled document: the outer catch.
FallbackThrows ==
    /\ tdPc = "fallback"
    /\ TestDetectReturn(<<>>, "unreadable")
    /\ UNCHANGED <<tdSource, tdFiles, tdServices>>
    /\ UNCHANGED notTestDetectVars

TestDetectIdle ==
    /\ tdSource = "null" /\ tdFiles = <<>> /\ tdServices = <<>>
    /\ tdPc = "call" /\ tdResult = <<>> /\ tdOutcome = "none"

TestDetectNext ==
    \/ TestDetectCall
    \/ StatSettles
    \/ ReaddirResolves
    \/ ScanThrows
    \/ ScanReturns
    \/ FallbackReturns
    \/ FallbackThrows

(***************************************************************************)
(* The generated artifacts: generateCompose writes nginx-gateway.conf (in  *)
(* addGateway) and then xq-compose.yml, and tracks each in tempFiles when  *)
(* keepFile is false; cleanupTempFiles, the handler of exit, SIGINT and    *)
(* SIGTERM, removes the tracked files.                                     *)
(***************************************************************************)

MaxGenerateCalls == 2
MaxCleanupRuns == 2

NginxConfigPath == "nginx-gateway.conf"
FinalOutputPath == "xq-compose.yml"
ArtifactPaths == {NginxConfigPath, FinalOutputPath}

Missing == [exists |-> FALSE, keepFile |-> TRUE]
Written(keepFile) == [exists |-> TRUE, keepFile |-> keepFile]

NotWriting == [at |-> "idle", keepFile |-> TRUE]

CleanupInit ==
    /\ tempFiles = {}
    /\ artifacts = [path \in ArtifactPaths |-> Missing]
    /\ writing = NotWriting
    /\ generateCalls = 0
    /\ cleanupRuns = 0

\* if (!keepFile) { this.tempFiles.add(path) }
Tracked(path, keepFile) ==
    IF keepFile THEN tempFiles ELSE tempFiles \cup {path}

\* generateCompose(specPath, { gateway, keepFile }): the specification is
\* read and compiled up to the first file written; a specification that
\* cannot be read, or a failing write of the configuration, ends the call.
GenerateCompose(withGateway, keepFile, ok) ==
    /\ writing.at = "idle"
    /\ generateCalls < MaxGenerateCalls
    /\ generateCalls' = generateCalls + 1
    /\ writing' = IF ~ok THEN NotWriting
                  ELSE [at |-> IF withGateway THEN "gateway" ELSE "compose",
                        keepFile |-> keepFile]
    /\ UNCHANGED <<tempFiles, artifacts, cleanupRuns>>
    /\ UNCHANGED notCleanupVars

\* addGateway: await gateway.generateNginxConfig(...) has written the
\* configuration; it is tracked unless keepFile.
WriteGatewayConfig ==
    /\ writing.at = "gateway"
    /\ artifacts' = [artifacts EXCEPT ![NginxConfigPath] = Written(writing.keepFile)]
    /\ tempFiles' = Tracked(NginxConfigPath, writing.keepFile)
    /\ writing' = [writing EXCEPT !.at = "compose"]
    /\ UNCHANGED <<generateCalls, cleanupRuns>>
    /\ UNCHANGED notCleanupVars

\* await fs.outputFile(finalOutputPath, ...) has written the document; it is
\* tracked unless keepFile, and the call returns.
WriteComposeFile ==
    /\ writing.at = "compose"
    /\ artifacts' = [artifacts EXCEPT ![FinalOutputPath] = Written(writing.keepFile)]
    /\ tempFiles' = Tracked(FinalOutputPath, writing.keepFile)
    /\ writing' = NotWriting
    /\ UNCHANGED <<generateCalls, cleanupRuns>>
    /\ UNCHANGED notCleanupVars

\* fs.outputFile rejects: the call rejects.
WriteComposeFails ==
    /\ writing.at = "compose"
    /\ writing' = NotWriting
    /\ UNCHANGED <<tempFiles, artifacts, generateCalls, cleanupRuns>>
    /\ UNCHANGED notCleanupVars

\* cleanupTempFiles(), called directly or by the handler of a signal while
\* a call is awaiting: every tracked file is removed, the set is cleared.
CleanupTempFiles ==
    /\ cleanupRuns < MaxCleanupRuns
    /\ cleanupRuns' = cleanupRuns + 1
    /\ artifacts' = [path \in ArtifactPaths |->
                        IF path \in tempFiles
                        THEN [artifacts[path] EXCEPT !.exists = FALSE]
                        ELSE artifacts[path]]
    /\ tempFiles' = {}
    /\ UNCHANGED <<writing, generateCalls>>
    /\ UNCHANGED notCleanupVars

CleanupNext ==
    \/ \E withGateway, keepFile, ok \in BOOLEAN :
          GenerateCompose(withGateway, keepFile, ok)
    \/ WriteGatewayConfig
    \/ WriteComposeFile
    \/ WriteComposeFails
    \/ CleanupTempFiles

CleanupIdle == CleanupInit

(***************************************************************************)
(* execCommand.  One invocation of the CLI awaits each call before it      *)
(* makes the next one.  A child is spawned per call; its promise is        *)
(* settled by the timer, by the 'error' event or by the 'exit' event, and  *)
(* the handlers of SIGINT and SIGTERM stay registered for every child.     *)
(* Time is in milliseconds; the clock stops at the instants that matter.   *)
(***************************************************************************)

MaxSpawns == 2
MaxCommandTimeout == 2
MaxReceived == 1

\* const { timeout = 300000, ...spawnOptions } = options
DefaultTimeout == 300000

\* options.timeout: not given, or a number of milliseconds (0 among them).
TimeoutOptions ==
    {[given |-> FALSE, timeout |-> 0]}
        \cup {[given |-> TRUE, timeout |-> t] : t \in 0..MaxCommandTimeout}

TimeoutOf(options) == IF options.given THEN options.timeout ELSE DefaultTimeout

\* The instant after `t` at which the clock stops next.
NextInstant(t) ==
    IF t <= MaxCommandTimeout THEN t + 1
    ELSE IF t < DefaultTimeout THEN DefaultTimeout
    ELSE t + 1

\* A promise on which a later resolve or reject wins.
Settle_LastWins(promise, outcome) == outcome

\* resolve(...) / reject(...): only the first call settles the promise.
Settle(promise, outcome) == IF promise = "pending" THEN outcome ELSE promise

\* if (timeout) { timeoutId = setTimeout(...) }
Armed(ms) == IF ms # 0 THEN "armed" ELSE "none"

\* if (timeoutId) clearTimeout(timeoutId)
Cleared(timer) == IF timer = "armed" THEN "cleared" ELSE timer

Latest == children[Len(children)]

\* The caller is awaiting the call it made last.
Awaiting == children # <<>> /\ Latest.promise = "pending"

ExecInit ==
    /\ children = <<>>
    /\ elapsed = 0
    /\ received = <<>>

\* execCommand(command, args, options): spawn, the timer, the handlers.
ExecCommand(options) ==
    /\ ~Awaiting
    /\ Len(children) < MaxSpawns
    /\ children' = Append(children,
                          [state |-> "running", exitCode |-> "none",
                           signals |-> <<>>, timeout |-> TimeoutOf(options),
                           timer |-> Armed(TimeoutOf(options)),
                           promise |-> "pending", message |-> 0])
    /\ elapsed' = 0
    /\ UNCHANGED received
    /\ UNCHANGED notExecVars

\* Time passes while the call is awaited; an armed timer fires no later than
\* at its timeout.
TimePasses ==
    /\ Awaiting
    /\ elapsed <= DefaultTimeout
    /\ ~(Latest.timer = "armed" /\ elapsed >= Latest.timeout)
    /\ elapsed' = NextInstant(elapsed)
    /\ UNCHANGED <<children, received>>
    /\ UNCHANGED notExecVars

\* The timer fires: child.kill('SIGTERM') and
\* reject(new Error(`Command timed out after ${timeout}ms`)).
TimerFires ==
    /\ children # <<>>
    /\ Latest.timer = "armed"
    /\ elapsed >= Latest.timeout
    /\ children' = [children EXCEPT ![Len(children)] =
                        [@ EXCEPT !.timer = "fired",
                                  !.signals = Append(@, "SIGTERM"),
                                  !.promise = Settle(@, "timeout"),
                                  !.message = Latest.timeout]]
    /\ UNCHANGED <<elapsed, received>>
    /\ UNCHANGED notExecVars

\* child.on('exit'): the timer is cleared; resolve when exitCode === 0,
\* reject otherwise (a child ended by a signal has the exit code null).
ChildExits(i, code) ==
    /\ i \in DOMAIN children
    /\ children[i].state = "running"
    /\ children' = [children EXCEPT ![i] =
                        [@ EXCEPT !.state = "exited",
                                  !.exitCode = code,
                                  !.timer = Cleared(@),
                                  !.promise = Settle(@, IF code = "0" THEN "resolved"
                                                        ELSE "exit")]]
    /\ UNCHANGED <<elapsed, received>>
    /\ UNCHANGED notExecVars

\* child.on('error'): the command could not be spawned; the timer is
\* cleared and the call rejects with the error.
ChildError ==
    /\ Awaiting
    /\ Latest.state = "running"
    /\ elapsed = 0
    /\ children' = [children EXCEPT ![Len(children)] =
                        [@ EXCEPT !.state = "unspawned",
                                  !.timer = Cleared(@),
                                  !.promise = Settle(@, "error")]]
    /\ UNCHANGED <<elapsed, received>>
    /\ UNCHANGED notExecVars

\* process.on('SIGINT' / 'SIGTERM'): the handler registered for each child
\* forwards the signal with child.kill; a child that is gone ignores it.
ProcessSignal(sig) ==
    /\ children # <<>>
    /\ Len(received) < MaxReceived
    /\ received' = Append(received, sig)
    /\ children' = [i \in DOMAIN children |->
                        IF children[i].state = "running"
                        THEN [children[i] EXCEPT !.signals = Append(@, sig)]
                        ELSE children[i]]
    /\ UNCHANGED elapsed
    /\ UNCHANGED notExecVars

ExecNext ==
    \/ \E options \in TimeoutOptions : ExecCommand(options)
    \/ TimePasses
    \/ TimerFires
    \/ \E i \in 1..MaxSpawns, code \in {"0", "1", "null"} : ChildExits(i, code)
    \/ ChildError
    \/ \E sig \in {"SIGINT", "SIGTERM"} : ProcessSignal(sig)

ExecIdle == ExecInit

(***************************************************************************)
(* The specifications: each runs one part of the program, the other parts  *)
(* staying as they start.                                                  *)
(***************************************************************************)

WaitIdle ==
    /\ testContainers = <<>> /\ timeout = 0 /\ checkInterval = 1
    /\ waitPc = "call" /\ now = 0 /\ startTime = 0 /\ pollCount = 0
    /\ lastPoll = NoPoll /\ waitResult = "none" /\ waitLog = "none"
    /\ failedContainers = <<>> /\ interrupted = "no"

LoadIdle ==
    /\ sourceKind = "missing" /\ dirFiles = {} /\ globalConfig = NoConfig
    /\ fileSpec = NoFileSpec /\ loads = <<>>

GenIdle ==
    /\ genSpec = NoFileSpec /\ enableGateway = FALSE
    /\ genPc = "call" /\ genIndex = 0
    /\ nextPort = 0 /\ usedPorts = {} /\ compose = <<>>

DetectIdle == DetectInit /\ composeExists

UpIdle ==
    /\ shouldPull = TRUE /\ upPc = "call" /\ events = <<>>
    /\ sourcePath = "null" /\ detected = <<>> /\ exitCode = "none"

NginxIdle == nginxServices = <<>> /\ nginxPc = "call" /\ conf = NoConf

OverrideIdle ==
    /\ ovSpec = NoFileSpec /\ ovOverrides = <<>>
    /\ ovPc = "call" /\ ovMerged = NoFileSpec

WaitSpecInit ==
    /\ WaitInit
    /\ LoadIdle /\ GenIdle /\ OverrideIdle /\ NginxIdle /\ DetectIdle /\
       UpIdle /\ ConvertIdle /\ TestDetectIdle /\ CleanupIdle /\ ExecIdle

WaitSpec == WaitSpecInit /\ [][WaitNext]_vars

\* Every pending await settles: the event loop runs each enabled step.
WaitFairSpec == WaitSpec /\ WF_vars(WaitNext)

LoadSpecInit ==
    /\ LoadInit
    /\ WaitIdle /\ GenIdle /\ OverrideIdle /\ NginxIdle /\ DetectIdle /\
       UpIdle /\ ConvertIdle /\ TestDetectIdle /\ CleanupIdle /\ ExecIdle

LoadSpec == LoadSpecInit /\ [][LoadNext]_vars

GenSpecInit ==
    /\ GenInit
    /\ WaitIdle /\ LoadIdle /\ OverrideIdle /\ NginxIdle /\ DetectIdle /\
       UpIdle /\ ConvertIdle /\ TestDetectIdle /\ CleanupIdle /\ ExecIdle

GenSpec == GenSpecInit /\ [][GenNext]_vars

GatewaySpecInit ==
    /\ GatewayInit
    /\ WaitIdle /\ LoadIdle /\ OverrideIdle /\ NginxIdle /\ DetectIdle /\
       UpIdle /\ ConvertIdle /\ TestDetectIdle /\ CleanupIdle /\ ExecIdle

OverrideSpecInit ==
    /\ OverrideInit
    /\ WaitIdle /\ LoadIdle /\ GenIdle /\ NginxIdle /\ DetectIdle /\
       UpIdle /\ ConvertIdle /\ TestDetectIdle /\ CleanupIdle /\ ExecIdle

OverrideSpec == OverrideSpecInit /\ [][OverrideNext]_vars

NginxSpecInit ==
    /\ NginxInit
    /\ WaitIdle /\ LoadIdle /\ GenIdle /\ OverrideIdle /\ DetectIdle /\
       UpIdle /\ ConvertIdle /\ TestDetectIdle /\ CleanupIdle /\ ExecIdle

NginxSpec == NginxSpecInit /\ [][NginxNext]_vars

DetectSpecInit ==
    /\ DetectInit
    /\ WaitIdle /\ LoadIdle /\ GenIdle /\ OverrideIdle /\ NginxIdle /\
       UpIdle /\ ConvertIdle /\ TestDetectIdle /\ CleanupIdle /\ ExecIdle

DetectSpec == DetectSpecInit /\ [][DetectNext]_vars

UpSpecInit ==
    /\ UpInit
    /\ WaitIdle /\ LoadIdle /\ GenIdle /\ OverrideIdle /\ NginxIdle /\
       DetectIdle /\ ConvertIdle /\ TestDetectIdle /\ CleanupIdle /\ ExecIdle

UpSpec == UpSpecInit /\ [][UpNext]_vars

TestDetectSpecInit ==
    /\ TestDetectInit
    /\ WaitIdle /\ LoadIdle /\ GenIdle /\ OverrideIdle /\ NginxIdle /\
       DetectIdle /\ UpIdle /\ ConvertIdle /\ CleanupIdle /\ ExecIdle

TestDetectSpec == TestDetectSpecInit /\ [][TestDetectNext]_vars

CleanupSpecInit ==
    /\ CleanupInit
    /\ WaitIdle /\ LoadIdle /\ GenIdle /\ OverrideIdle /\ NginxIdle /\
       DetectIdle /\ UpIdle /\ ConvertIdle /\ TestDetectIdle /\ ExecIdle

CleanupSpec == CleanupSpecInit /\ [][CleanupNext]_vars

ExecSpecInit ==
    /\ ExecInit
    /\ WaitIdle /\ LoadIdle /\ GenIdle /\ OverrideIdle /\ NginxIdle /\
       DetectIdle /\ UpIdle /\ ConvertIdle /\ TestDetectIdle /\ CleanupIdle

ExecSpec == ExecSpecInit /\ [][ExecNext]_vars

ConvertSpecInit ==
    /\ ConvertInit
    /\ WaitIdle /\ LoadIdle /\ GenIdle /\ OverrideIdle /\ NginxIdle /\
       DetectIdle /\ UpIdle /\ TestDetectIdle /\ CleanupIdle /\ ExecIdle

ConvertSpec == ConvertSpecInit /\ [][ConvertNext]_vars

GatewaySpec == GatewaySpecInit /\ [][GenNext]_vars


(***************************************************************************)
(* What a poll shows, read off the rows themselves (the SERVICE column and *)
(* the STATUS column), independently of the parser above.                  *)
(***************************************************************************)

RowService(row) == row[2]

RowStatus(row) == SubSeq(row, 3, Len(row))

\* stdout has a row of `service` whose status is exactly `status`.
Shows(stdout, service, status) ==
    \E r \in DOMAIN stdout :
        /\ stdout[r][1] # W_NAME
        /\ RowService(stdout[r]) = service
        /\ RowStatus(stdout[r]) = status

\* The stdout with a single row: `service` in `status`.
OnlyRow(service, status) ==
    <<<<W_NAME, W_SERVICE, W_STATUS>>, PsRow(service, status)>>

Elapsed == now - startTime

(***************************************************************************)
(* C1: waitForTestContainers returns true only if the poll it returns on   *)
(* has, for every tracked service, a row of that service that reads        *)
(* "Exited (0)": never while a tracked service has no row or another       *)
(* status.                                                                 *)
(***************************************************************************)
C1_TrueOnlyIfAllExitedZero ==
    (waitPc = "done" /\ waitResult = "true" /\ testContainers # <<>>) =>
        /\ lastPoll.kind = "resolved"
        /\ \A i \in DOMAIN testContainers :
              Shows(lastPoll.stdout, testContainers[i], <<W_Exited, W_Code0>>)

(***************************************************************************)
(* C2: one tracked service.  After a first poll that shows it "Up" the     *)
(* call has not returned a verdict; when the second poll shows             *)
(* "Exited (0)" the call returns true on that poll, the second; when it    *)
(* shows "Exited (1)" the call returns false on the second poll and        *)
(* reports the service with exit code 1.                                   *)
(***************************************************************************)
C2_UpThenExited ==
    /\ [](\A s \in Range(ProjectServices) :
            (/\ testContainers = <<s>>
             /\ pollCount = 1
             /\ lastPoll = Resolved(OnlyRow(s, <<W_Up>>)))
            => /\ waitResult # "true"
               /\ waitLog \in {"none", "timeout"}
               /\ waitPc \in {"sleep", "loop", "done"})
    /\ [][\A s \in Range(ProjectServices) :
            (/\ testContainers = <<s>>
             /\ pollCount = 1
             /\ pollCount' = 2)
            => /\ (lastPoll' = Resolved(OnlyRow(s, <<W_Exited, W_Code0>>))
                    => /\ waitPc' = "done"
                       /\ waitResult' = "true"
                       /\ failedContainers' = <<>>)
               /\ (lastPoll' = Resolved(OnlyRow(s, <<W_Exited, W_Code1>>))
                    => /\ waitPc' = "done"
                       /\ waitResult' = "false"
                       /\ failedContainers' = <<[service |-> s, exitCode |-> 1]>>)
       ]_vars

\* Both endings of the scenario are reached on the second poll.
C2_Witness ==
    /\ testContainers = <<Svc_c>>
    /\ pollCount = 2
    /\ waitPc = "done"
    /\ waitResult = "false"
    /\ lastPoll = Resolved(OnlyRow(Svc_c, <<W_Exited, W_Code1>>))
    /\ failedContainers = <<[service |-> Svc_c, exitCode |-> 1]>>

(***************************************************************************)
(* C3: a rejected status poll never ends the wait.  The step that takes    *)
(* the rejection leaves the call sleeping with no result; the sleep lasts  *)
(* one checkInterval and leads back to the loop condition; and a call that *)
(* has returned after a rejected poll returned false for the timeout, with *)
(* the timeout elapsed.                                                    *)
(***************************************************************************)
C3_PollFailureKeepsWaiting ==
    /\ [][(pollCount' = pollCount + 1 /\ lastPoll' = Rejected)
            => (waitPc' = "sleep" /\ waitResult' = "none" /\ waitLog' = "none")]_vars
    /\ [][(waitPc = "sleep" /\ lastPoll = Rejected /\ interrupted' = interrupted)
            => (waitPc' = "loop" /\ now' = now + checkInterval)]_vars
    /\ [](lastPoll = Rejected =>
            /\ waitPc # "threw"
            /\ (waitPc = "done" =>
                  /\ waitResult = "false"
                  /\ waitLog = "timeout"
                  /\ Elapsed >= timeout))

\* The call timed out after a poll that was rejected, having polled twice.
C3_Witness ==
    /\ waitPc = "done"
    /\ lastPoll = Rejected
    /\ pollCount >= 2
    /\ waitLog = "timeout"

DescriptorFiles ==
    {f \in dirFiles : EndsWith(f.filename, Ext_service_yml)
                      \/ EndsWith(f.filename, Ext_service_yaml)}

\* The explicit name if present, otherwise the filename without its suffix.
ExpectedName(f) ==
    IF f.data.name # NoName THEN f.data.name
    ELSE IF EndsWith(f.filename, Ext_service_yaml)
    THEN SubSeq(f.filename, 1, Len(f.filename) - 13)
    ELSE SubSeq(f.filename, 1, Len(f.filename) - 12)

DistinctNames ==
    \A f, g \in DescriptorFiles : f # g => ExpectedName(f) # ExpectedName(g)

DirNames == {ExpectedName(f) : f \in DescriptorFiles}

DirEdges ==
    UNION {{<<ExpectedName(f), dep>> : dep \in Range(f.data.depends_on)} :
              f \in DescriptorFiles}

\* depends_on entries that name no service of the directory.
DirDangling == {e \in DirEdges : e[2] \notin DirNames}

FileEdges ==
    UNION {{<<fileSpec.services[i].name, dep>> :
               dep \in Range(fileSpec.services[i].config.depends_on)} :
              i \in DOMAIN fileSpec.services}

\* The pairs <<x, z>> with <<x, y>> in R and <<y, z>> in E for some y.
Compose(R, E) ==
    {p \in {<<r[1], e[2]>> : r \in R, e \in E} :
        \E r \in R, e \in E : r[1] = p[1] /\ r[2] = e[1] /\ e[2] = p[2]}

\* The pairs <<x, y>> with a path of one or more edges of E from x to y.
Reachability(E) ==
    LET RECURSIVE Grow(_, _)
        Grow(R, n) == IF n = 0 THEN R ELSE Grow(R \cup Compose(R, E), n - 1)
    IN Grow(E, Cardinality(E))

\* E has a cycle of length two or more: two different names reach each other.
CyclicPair(E) ==
    \E p \in Reachability(E) : p[1] # p[2] /\ <<p[2], p[1]>> \in Reachability(E)

Acyclic(E) == \A p \in Reachability(E) : p[1] # p[2]

\* The k-th descriptor file in lexicographic filename order.
KthFile(k) ==
    CHOOSE f \in DescriptorFiles :
        Cardinality({g \in DescriptorFiles : LexLess(g.filename, f.filename)}) = k - 1

\* The cause of a failed load.
Cause(i) == loads[i].error.cause

C6_EveryDanglingIsReported ==
    \A i \in DOMAIN loads :
        (sourceKind = "directory" /\ DistinctNames /\ DirDangling # {})
        => /\ ~loads[i].ok
           /\ Cause(i).kind = "dangling"
           /\ <<Cause(i).service, Cause(i).target>> \in DirDangling

\* The names a loaded specification declares.
SpecNames(spec) == ServiceNames(spec.services)

\* A service's depends_on merged with the members of its dependencyGroups.
ExpandedDeps(spec, i) ==
    Range(spec.services[i].config.depends_on)
    \cup UNION {Range(spec.dependencies[group]) :
                  group \in Range(spec.services[i].config.dependencyGroups)
                            \cap DOMAIN spec.dependencies}

ExpandedEdges(spec) ==
    UNION {{<<spec.services[i].name, dep>> : dep \in ExpandedDeps(spec, i)} :
              i \in DOMAIN spec.services}

\* C7 (as stated, for a directory whose depends_on entries all name services
\* of the directory): in every specification load returns, each service's
\* depends_on merged with the members of its dependencyGroups names only
\* services of the specification, and the resulting graph is acyclic.
C7_AcceptedSpecsAreClosedAndAcyclic ==
    \A i \in DOMAIN loads :
        (loads[i].ok /\ sourceKind = "directory" /\ DirDangling = {})
        => /\ \A e \in ExpandedEdges(loads[i].spec) : e[2] \in SpecNames(loads[i].spec)
           /\ Acyclic(ExpandedEdges(loads[i].spec))

\* What load is to return for the directory: one entry per descriptor file, in
\* filename order, keyed by its expected name, holding the file's content
\* without `name`; the global config's dependencies and port range beside them.
ExpectedSpec ==
    [services |->
        [k \in 1..Cardinality(DescriptorFiles) |->
            [name |-> ExpectedName(KthFile(k)),
             config |-> [depends_on |-> KthFile(k).data.depends_on,
                         dependencyGroups |-> KthFile(k).data.dependencyGroups]]],
     dependencies |-> globalConfig.dependencies,
     portRangeStart |-> globalConfig.portRangeStart]

\* A directory of N >= 1 descriptor files with distinct names whose depends_on
\* edges stay inside the directory and are acyclic.
ValidDirectory ==
    /\ sourceKind = "directory"
    /\ DescriptorFiles # {}
    /\ DistinctNames
    /\ DirDangling = {}
    /\ Acyclic(DirEdges)

\* C8 (as stated): every such directory loads, into exactly N services keyed by
\* explicit name or filename stem, in lexicographic filename order; a second
\* load of the same directory returns the same specification.
C8_ValidDirectoryLoads ==
    ValidDirectory
    => /\ \A i \in DOMAIN loads : loads[i] = Ok(ExpectedSpec)
       /\ Len(loads) = 2 => loads[1] = loads[2]

Seed == IF genSpec.portRangeStart # 0 THEN genSpec.portRangeStart ELSE 3000

\* The host ports bound by the first k compiled services.
HostPorts(k) ==
    UNION {{HostPortOf(compose[j].ports[m]) : m \in DOMAIN compose[j].ports} :
              j \in 1..k} \ {NaN}

\* The smallest port >= c that is not in U.
SmallestFree(c, U) ==
    CHOOSE p \in c..(c + Cardinality(U)) :
        p \notin U /\ \A q \in c..(p - 1) : q \in U

\* The cursor after k services if it moved after every one of them.
RECURSIVE ClaimedCursor(_)
ClaimedCursor(k) ==
    IF k = 0 THEN Seed
    ELSE SmallestFree(ClaimedCursor(k - 1) + 1, HostPorts(k))

\* The cursor after k services if it stays where it is after a service that
\* says `autoPort: false`.
RECURSIVE SteppedCursor(_)
SteppedCursor(k) ==
    IF k = 0 THEN Seed
    ELSE IF genSpec.services[k].config.autoPort = FALSE THEN SteppedCursor(k - 1)
    ELSE SmallestFree(SteppedCursor(k - 1) + 1, HostPorts(k))

\* Compiled service k binds exactly host port h to the service's port.
BindsAuto(k, h) ==
    /\ compose[k].hasPorts
    /\ Len(compose[k].ports) = 1
    /\ HostPortOf(compose[k].ports[1]) = h
    /\ EndsWith(compose[k].ports[1],
                <<":">> \o FormatInt(genSpec.services[k].config.port))

\* The first two services ask for an auto port and nothing pins a port.
TwoAutoPortServices ==
    /\ Len(genSpec.services) = 2
    /\ Seed = 3000
    /\ \A k \in 1..2 : LET s == genSpec.services[k].config IN
                         ~s.hasPorts /\ s.port # 0 /\ s.autoPort

TwoAutoPortsInOrder ==
    (TwoAutoPortServices /\ genPc = "done")
    => /\ compose[1].ports = <<Port_3000>>
       /\ compose[2].ports = <<Port_3001>>

\* C10 (as stated): the cursor starts at portRangeStart (3000 by default); a
\* service with `port` and no `ports` is bound to the smallest unused host port
\* >= the cursor; after every service the cursor moves by one and then past
\* every used port; two auto-port services from 3000 get 3000 and 3001.
C10_CursorMovesAfterEveryService ==
    genPc # "call"
    => /\ nextPort = ClaimedCursor(genIndex)
       /\ \A k \in 1..genIndex :
             LET s == genSpec.services[k].config IN
             (~s.hasPorts /\ s.port # 0)
             => BindsAuto(k, SmallestFree(ClaimedCursor(k - 1), HostPorts(k - 1)))
       /\ TwoAutoPortsInOrder

\* C10 (amended): as stated, except for a service that says `autoPort: false`:
\* it is bound to no host port unless it lists `ports`, and after it the cursor
\* stays where it is.  After every other service, auto-assigned or with
\* explicit `ports`, the cursor moves by one and then past every used port.
C10_CursorSkipsAutoPortFalse ==
    genPc # "call"
    => /\ nextPort = SteppedCursor(genIndex)
       /\ \A k \in 1..genIndex :
             LET s == genSpec.services[k].config IN
             /\ (~s.hasPorts /\ s.port # 0 /\ s.autoPort)
                => BindsAuto(k, SmallestFree(SteppedCursor(k - 1), HostPorts(k - 1)))
             /\ (~s.hasPorts /\ ~(s.port # 0 /\ s.autoPort)) => ~compose[k].hasPorts
             /\ s.hasPorts => compose[k].hasPorts /\ compose[k].ports = s.ports
       /\ TwoAutoPortsInOrder

\* Three services compiled: the first pins 3000 and says `autoPort: false`, so
\* the cursor is still 3000 for the second, which is bound to 3001, the first
\* free port from there; the third follows it.
C10_Witness ==
    /\ genPc = "done" /\ genIndex = 3 /\ Seed = 3000
    /\ genSpec.services[1].config.ports = <<Port_3000>>
    /\ ~genSpec.services[1].config.autoPort
    /\ \A k \in 2..3 : LET s == genSpec.services[k].config IN
                         ~s.hasPorts /\ s.port # 0 /\ s.autoPort
    /\ HostPortOf(compose[2].ports[1]) = 3001
    /\ HostPortOf(compose[3].ports[1]) = 3002
    /\ nextPort = 3003


(***************************************************************************)
(* The gateway claims, read off the compiled document.                     *)
(***************************************************************************)

IsCompiled(name) == \E j \in DOMAIN compose : compose[j].name = name

\* The entry of the compiled document under `name`.
Compiled(name) == compose[CHOOSE j \in DOMAIN compose : compose[j].name = name]

\* The names a depends_on has entries for.
DependsOnNames(entry) == {d.name : d \in Range(entry.depends_on)}

\* The gateway's entry, known by its depends_on, which maps names to conditions.
GatewayInjected ==
    /\ IsCompiled(GatewayName)
    /\ Compiled(GatewayName).depends_on # <<>>
    /\ \A d \in Range(Compiled(GatewayName).depends_on) : d.condition # NoCondition

\* The directory of the scenario has been loaded and compiled with the gateway.
ScenarioCompiled ==
    /\ ServiceNames(genSpec.services) = {Svc_api, Svc_postgres}
    /\ genSpec.portRangeStart = 4000
    /\ enableGateway
    /\ genPc = "done"

Port_4000 == <<"4", "0", "0", "0", ":", "3", "0", "0", "0">>

C12_GatewayDependsOnEveryOtherService ==
    genPc = "done" =>
        /\ GatewayInjected <=> (enableGateway /\ Len(genSpec.services) > 0)
        /\ GatewayInjected =>
              LET entries == Compiled(GatewayName).depends_on IN
              /\ DependsOnNames(Compiled(GatewayName)) =
                    ServiceNames(genSpec.services) \ {GatewayName}
              /\ \A i, j \in DOMAIN entries :
                    entries[i].name = entries[j].name => i = j
              /\ \A i \in DOMAIN entries :
                    entries[i].condition =
                       IF ServiceConfig(genSpec.services, entries[i].name).healthcheck
                       THEN "service_healthy" ELSE "service_started"

\* A host port q is the host side of a port mapping of a compiled service.
HostSideBound(q) ==
    \E j \in DOMAIN compose : \E m \in DOMAIN compose[j].ports :
        StartsWith(compose[j].ports[m], FormatInt(q) \o <<":">>)

HasOverride(name) == \E k \in DOMAIN ovOverrides : ovOverrides[k].name = name

OverrideOf(name) ==
    ovOverrides[CHOOSE k \in DOMAIN ovOverrides : ovOverrides[k].name = name].config

\* Service i of the result is service i of the specification with exactly
\* the fields of its override entry replaced.
OnlyNamedFieldsChanged(i) ==
    LET before == ovSpec.services[i].config
        after == ovMerged.services[i].config
        named == IF HasOverride(ovSpec.services[i].name)
                 THEN OverrideOf(ovSpec.services[i].name)
                 ELSE [field \in {} |-> ""] IN
    /\ ovMerged.services[i].name = ovSpec.services[i].name
    /\ DOMAIN after = DOMAIN before \cup DOMAIN named
    /\ \A field \in DOMAIN named : after[field] = named[field]
    /\ \A field \in DOMAIN before \ DOMAIN named : after[field] = before[field]

\* C14: applyOverrides changes exactly the fields named in an override entry
\* of an existing service, each replaced by the whole value of the entry;
\* every other field of that service, every other service and the top-level
\* portRange and dependencies are unchanged; an override entry for a name that
\* is not a service of the specification adds no service and raises no error.
C14_OnlyNamedFieldsChange ==
    ovPc = "done" =>
        /\ Len(ovMerged.services) = Len(ovSpec.services)
        /\ \A i \in DOMAIN ovSpec.services : OnlyNamedFieldsChanged(i)
        /\ ovMerged.dependencies = ovSpec.dependencies
        /\ ovMerged.portRangeStart = ovSpec.portRangeStart

(***************************************************************************)
(* The route claims, read off the services given and the blocks written.   *)
(***************************************************************************)

\* The route rules of the services other than the gateway: <<i, k>> is rule k
\* of service i.
Rules ==
    {<<i, k>> \in (DOMAIN nginxServices) \X (1..MaxRules) :
        /\ nginxServices[i].name # GatewayName
        /\ nginxServices[i].hasRoutes
        /\ k \in DOMAIN nginxServices[i].routes}

Rule(r) == nginxServices[r[1]].routes[r[2]]

Owner(r) == nginxServices[r[1]].name

NamesPath(r, path) == Rule(r).hasPaths /\ path \in Range(Rule(r).paths)

\* The rule lists the method, or has no `methods` and the method is one of the
\* five defaults.
Declares(r, method) ==
    IF Rule(r).hasMethods THEN method \in Range(Rule(r).methods)
    ELSE method \in Range(DefaultMethods)

\* The rule has no `methods` or an empty list.
AllMethods(r) == ~Rule(r).hasMethods \/ Rule(r).methods = <<>>

NamedPaths == {Path_x, Path_y}

\* The location blocks written for a path.
BlocksOf(path) ==
    {j \in DOMAIN conf.locations :
        conf.locations[j].location = ConvertToNginxPath(path)}

\* The block sends requests of the method to the service's upstream.
Proxies(block, method, name) ==
    \/ block.proxy_pass = UpstreamOf(name)
    \/ \E c \in DOMAIN block.conditionals :
          /\ block.conditionals[c].method = method
          /\ block.conditionals[c].proxy_pass = UpstreamOf(name)

\* The first service, in registration order, with a rule that names the path
\* and declares the method.
FirstDeclaring(path, method) ==
    LET first == CHOOSE i \in DOMAIN nginxServices :
                    /\ \E r \in Rules : r[1] = i /\ NamesPath(r, path) /\ Declares(r, method)
                    /\ \A r \in Rules :
                          (NamesPath(r, path) /\ Declares(r, method)) => r[1] >= i IN
    nginxServices[first].name

\* C15: when several route rules name the same path the configuration has
\* exactly one location block for that path, with one conditional block for
\* every method declared for it and no other, and the block of a method
\* proxies to the first service, in registration order, that declared the
\* method for the path.
C15_OneLocationPerSharedPath ==
    nginxPc = "done" =>
        \A path \in NamedPaths :
            Cardinality({r \in Rules : NamesPath(r, path)}) >= 2 =>
                /\ Cardinality(BlocksOf(path)) = 1
                /\ LET block == conf.locations[CHOOSE j \in BlocksOf(path) : TRUE]
                       declared == {method \in Range(DefaultMethods) :
                                      \E r \in Rules : NamesPath(r, path) /\ Declares(r, method)} IN
                   /\ block.proxy_pass = NoName
                   /\ {block.conditionals[c].method : c \in DOMAIN block.conditionals}
                         = declared
                   /\ Len(block.conditionals) = Cardinality(declared)
                   /\ \A c \in DOMAIN block.conditionals :
                         block.conditionals[c].proxy_pass =
                            UpstreamOf(FirstDeclaring(path, block.conditionals[c].method))

\* GET /x from a and POST /x from c: one location, GET to a and POST to c.
C15_Witness ==
    /\ nginxPc = "done"
    /\ Len(nginxServices) = 2
    /\ \A i \in 1..2 : /\ nginxServices[i].hasRoutes
                       /\ Len(nginxServices[i].routes) = 1
                       /\ nginxServices[i].routes[1].paths = <<Path_x>>
    /\ nginxServices[1].routes[1].methods = <<"GET">>
    /\ nginxServices[2].routes[1].methods = <<"POST">>
    /\ conf.locations[1].conditionals =
          <<[method |-> "GET", proxy_pass |-> UpstreamOf(Svc_a)],
            [method |-> "POST", proxy_pass |-> UpstreamOf(Svc_c)]>>

\* C16: a route rule whose `methods` is absent or an empty list stands for the
\* five default methods: when no other service has a rule for a path it names,
\* the path's location block proxies GET, POST, PUT, DELETE and PATCH to the
\* rule's service.
C16_NoMethodsMeansAllMethods ==
    nginxPc = "done" =>
        \A r \in Rules : \A path \in NamedPaths :
            (/\ AllMethods(r)
             /\ NamesPath(r, path)
             /\ \A q \in Rules : NamesPath(q, path) => q[1] = r[1])
            => /\ BlocksOf(path) # {}
               /\ \A j \in BlocksOf(path) :
                     \A k \in DOMAIN DefaultMethods :
                        Proxies(conf.locations[j], DefaultMethods[k], Owner(r))

\* The location an upstream-less name is given: /name/.
FallbackLocation(name) == <<"/">> \o name \o <<"/">>

IsPathBased(block) == block.location[1] = "~"

\* C17: the configuration has exactly one upstream block and exactly one
\* fallback location /name/ for every service other than the gateway, with or
\* without routes, and none for another name; every fallback location comes
\* after every path-based location.
C17_UpstreamAndFallbackPerService ==
    nginxPc = "done" =>
        LET backends == {nginxServices[i].name : i \in DOMAIN nginxServices}
                           \ {GatewayName} IN
        /\ \A name \in backends :
              /\ Cardinality({u \in DOMAIN conf.upstreams :
                                 conf.upstreams[u].server = name}) = 1
              /\ Cardinality({j \in DOMAIN conf.locations :
                                 conf.locations[j].location = FallbackLocation(name)}) = 1
        /\ Len(conf.upstreams) = Cardinality(backends)
        /\ Cardinality({j \in DOMAIN conf.locations : ~IsPathBased(conf.locations[j])})
              = Cardinality(backends)
        /\ \A j, k \in DOMAIN conf.locations :
              (IsPathBased(conf.locations[j]) /\ ~IsPathBased(conf.locations[k]))
              => j < k

\* A service with routes and one without: a path-based location, then the two
\* fallback locations.
C17_Witness ==
    /\ nginxPc = "done"
    /\ Len(nginxServices) = 2
    /\ nginxServices[1].hasRoutes /\ ~nginxServices[2].hasRoutes
    /\ Len(conf.locations) = 3
    /\ IsPathBased(conf.locations[1])
    /\ conf.locations[2].location = FallbackLocation(Svc_a)
    /\ conf.locations[3].location = FallbackLocation(Svc_c)
    /\ Len(conf.upstreams) = 2

(***************************************************************************)
(* The launcher claims, read off the probes a call has made.               *)
(***************************************************************************)

\* The primary probe: docker on the PATH and `docker compose --version`.
PrimarySucceeded ==
    \E k \in DOMAIN probes : probes[k].probe = Probe_Version /\ probes[k].ok

PrimaryFailedBefore(k) ==
    \E j \in 1..(k - 1) :
        probes[j].probe \in {Probe_WhichDocker, Probe_Version} /\ ~probes[j].ok

LegacyProbed == \E k \in DOMAIN probes : probes[k].probe = Probe_WhichLegacy

LegacyFailed ==
    \E k \in DOMAIN probes : probes[k].probe = Probe_WhichLegacy /\ ~probes[k].ok

\* A call that had to probe has settled.
Detected == detectPc = "idle" /\ probes # <<>>

\* C18: detectDockerCompose probes the primary launcher first and returns it
\* when that probe succeeds; it probes the legacy launcher only after the
\* primary probe has failed, and returns it when it is found; it fails with
\* the tooling-unavailable error exactly when both probes fail.
C18_PrimaryThenLegacy ==
    /\ probes # <<>> => probes[1].probe = Probe_WhichDocker
    /\ \A k \in DOMAIN probes :
          probes[k].probe = Probe_WhichLegacy => PrimaryFailedBefore(k)
    /\ PrimarySucceeded => (Detected /\ detectResult = PrimaryCli /\ ~LegacyProbed)
    /\ Detected =>
          /\ detectResult = ToolingUnavailable
                <=> (PrimaryFailedBefore(Len(probes)) /\ LegacyFailed)
          /\ (LegacyProbed /\ ~LegacyFailed) => detectResult = LegacyCli
          /\ detectResult \in {PrimaryCli, LegacyCli, ToolingUnavailable}

\* docker is on the PATH, its compose plugin does not answer and there is no
\* docker-compose: the call fails after the three probes.
C18_Witness ==
    /\ Detected
    /\ detectResult = ToolingUnavailable
    /\ probes = <<[probe |-> Probe_WhichDocker, ok |-> TRUE],
                  [probe |-> Probe_Version, ok |-> FALSE],
                  [probe |-> Probe_WhichLegacy, ok |-> FALSE]>>

\* C19: once a detection has succeeded the cached launcher never changes, no
\* step probes again, and every later call returns the cached command and
\* argument prefix, which the operation's command line starts with.
C19_CacheSetOnce ==
    /\ [][dockerComposeCli # NullCli =>
            /\ dockerComposeCli' = dockerComposeCli
            /\ probes' \in {probes, <<>>}]_vars
    /\ [][(/\ dockerComposeCli # NullCli
           /\ detectCalls' = detectCalls + 1
           /\ detectResult'.command # "invalid-file")
          => /\ detectResult' = dockerComposeCli
             /\ operation' # "detect" =>
                   /\ launched'.command = dockerComposeCli.command
                   /\ StartsWith(launched'.args, dockerComposeCli.args)]_vars

\* The legacy launcher was found by the first call; the third call, an `up`,
\* runs docker-compose without a probe.
C19_Witness ==
    /\ detectCalls = 3
    /\ dockerComposeCli = LegacyCli
    /\ probes = <<>>
    /\ detectResult = LegacyCli
    /\ operation = "up"
    /\ launched.command = "docker-compose"
    /\ launched.args[1] = "-f"

(***************************************************************************)
(* The claim about the `up` command, read off the calls it has made.       *)
(***************************************************************************)

Positions(event) == {k \in DOMAIN events : events[k] = event}

\* C20: with pulling enabled the pull is called first and has settled before
\* the start is called; a pull that fails never ends the command, the start
\* is then called; the start is called exactly once whether the pull
\* succeeded or failed; with pulling disabled no pull is called.
C20_PullThenStartOnce ==
    /\ Cardinality(Positions("up")) <= 1
    /\ upPc \notin {"call", "pull"} => Cardinality(Positions("up")) = 1
    /\ \A k \in Positions("up") :
          IF shouldPull
          THEN /\ Positions("pull") = {1}
               /\ \E j \in 2..(k - 1) : events[j] \in {"pull resolved", "pull rejected"}
               /\ events[k + 1] = "pull: true"
          ELSE /\ k = 1
               /\ events[k + 1] = "pull: false"
    /\ ~shouldPull => Positions("pull") = {}
    /\ Positions("pull rejected") # {} =>
          (exitCode = "3" => Positions("up rejected") # {})

\* The pull failed, the start was called once and the services are up.
C20_Witness ==
    /\ shouldPull
    /\ events = <<"pull", "pull rejected", "warn", "warn", "up", "pull: true",
                  "up resolved", "Services started successfully!">>
    /\ upPc = "stat"

(***************************************************************************)
(* The claim about the operations when the compiled document is missing.   *)
(***************************************************************************)

\* A call of the operations up, down, pull, logs or ps starts in this step.
OperationStarts ==
    /\ detectPc = "idle"
    /\ operation' # "detect"
    /\ detectCalls' # detectCalls \/ detectPc' # "idle"

\* C21: when the compiled document does not exist, a call of up, down, pull,
\* logs or ps fails with the not-found error, makes no probe for the
\* launcher and runs no command.
C21_MissingDocumentFailsFirst ==
    [][(OperationStarts /\ ~composeExists) =>
          /\ detectResult' = ComposeFileNotFound
          /\ detectPc' = "idle"
          /\ probes' = <<>>
          /\ launched' = launched
          /\ dockerComposeCli' = dockerComposeCli]_vars

\* The document is missing and every call so far, the last a `ps`, has
\* failed on it without anything having been probed or run.
C21_Witness ==
    /\ ~composeExists
    /\ detectCalls = MaxCalls
    /\ detectResult = ComposeFileNotFound
    /\ operation = "ps"
    /\ probes = <<>>
    /\ launched = NoLaunch
    /\ dockerComposeCli = NullCli

(***************************************************************************)
(* Two more claims about the verdict of a poll.                            *)
(***************************************************************************)

\* The poll just made shows every tracked service with the status
\* "Exited (0)".
AllShownExitedZero ==
    /\ testContainers # <<>>
    /\ lastPoll.kind = "resolved"
    /\ \A i \in DOMAIN testContainers :
          Shows(lastPoll.stdout, testContainers[i], <<W_Exited, W_Code0>>)

\* C28: a poll made before the timeout that shows every tracked service as
\* "Exited (0)" makes waitForTestContainers return true at that poll,
\* whatever the tracked names are (names that are substrings of one another
\* included) and whatever other containers the poll lists.
C28_AllExitedZeroReturnsTrue ==
    AllShownExitedZero => (waitPc = "done" /\ waitResult = "true")

\* C30: waitForTestContainers returns true only when the row of every
\* tracked container carries the exit code 0; a row of an exited container
\* whose code is not parsed, like "exited (1)", never counts as a success.
C30_UnparsedExitIsNoSuccess ==
    (waitPc = "done" /\ waitResult = "true" /\ lastPoll.kind = "resolved") =>
        \A i \in DOMAIN testContainers :
            ~Shows(lastPoll.stdout, testContainers[i], <<W_exited, W_Code1>>)

(***************************************************************************)
(* The claim about the fields of a compiled entry.                         *)
(***************************************************************************)

\* The compiled entry has the field.
Emits(field) == field \in DOMAIN composeService

\* C27: the compiled entry has environment, volumes, command and
\* healthcheck, with the descriptor's value, exactly when the descriptor has
\* the field; and no ports, environment, volumes, command or depends_on of a
\* compiled entry is an empty collection.
C27_VerbatimAndNeverEmpty ==
    convertPc = "done" =>
        /\ \A f \in VerbatimFields :
              /\ Emits(f) <=> descriptor[f] # Undefined
              /\ Emits(f) => composeService[f] = descriptor[f]
        /\ \A f \in {"ports", "environment", "volumes", "command", "depends_on"} :
              Emits(f) => composeService[f].items # <<>>

(***************************************************************************)
(* The claim about the host ports of a compiled document.                  *)
(***************************************************************************)

\* The (service, entry) positions of the explicit `ports` of the specification.
ExplicitEntries ==
    {<<i, m>> \in (DOMAIN genSpec.services) \X (1..2) :
        /\ genSpec.services[i].config.hasPorts
        /\ m \in DOMAIN genSpec.services[i].config.ports}

\* The explicit `ports` entries of the specification are pairwise distinct.
ExplicitPortsDistinct ==
    \A x, y \in ExplicitEntries :
        x # y => genSpec.services[x[1]].config.ports[x[2]]
                 # genSpec.services[y[1]].config.ports[y[2]]

\* The (service, entry) positions of the port mappings of the compiled document.
CompiledEntries ==
    {<<j, m>> \in (DOMAIN compose) \X (1..2) : m \in DOMAIN compose[j].ports}

HostPortAt(x) == HostPortOf(compose[x[1]].ports[x[2]])

\* C29: in a compiled document no host port is bound twice, whenever the
\* explicit `ports` entries of the specification are pairwise distinct,
\* whatever the order of the services with explicit and with automatic ports.
C29_HostPortsDistinct ==
    (genPc = "done" /\ ExplicitPortsDistinct) =>
        \A x, y \in CompiledEntries :
            (x # y /\ HostPortAt(x) # NaN) => HostPortAt(x) # HostPortAt(y)

(***************************************************************************)
(* The claim about the fallback of detectTestContainers.  Which names look *)
(* like a test container is written out name by name here.                 *)
(***************************************************************************)

\* "xq-keeper" has keeper, "E2E-run" has e2e, "test-db" starts with test-,
\* "Test" is test; "nginx-test" and "web" are none of these.
TestIndicative == {Svc_xq_keeper, Svc_E2E_run, Svc_test_db, Svc_Test}

\* The result of the heuristic on the compiled document.
HeuristicResult == SelectSeq(tdServices, LAMBDA n : n \in TestIndicative)

\* The source directory has no `.test.` descriptor file.
NoTestFile ==
    \A k \in DOMAIN tdFiles : tdFiles[k] \notin {File_keeper_test, File_db_test}

\* The call has returned and the compiled document could be read.
TestDetectDone == tdPc = "done" /\ tdOutcome # "unreadable"

\* C23 (as stated): the result is that of the service-name heuristic when
\* there is no source directory and also when the scan of the source
\* directory matches nothing.
C23_FallbackInBothCases ==
    (TestDetectDone /\ (tdSource # "directory" \/ NoTestFile)) =>
        tdResult = HeuristicResult

\* C23 (amended): without a source directory (no path, a missing path, a
\* path that is no directory) the result is that of the service-name
\* heuristic, which leaves "nginx-test" out; a source directory that is
\* listed and has no `.test.` file gives the empty list, not the heuristic.
C23_FallbackWithoutDirectory ==
    TestDetectDone =>
        /\ tdOutcome = "names" => tdResult = HeuristicResult
        /\ tdSource # "directory" => tdOutcome = "names"
        /\ (tdSource = "directory" /\ NoTestFile /\ tdOutcome # "names") =>
              (tdOutcome = "no test files" /\ tdResult = <<>>)

\* The path does not exist and the document has all six services: the four
\* named like tests are returned.
C23_Witness ==
    /\ tdPc = "done"
    /\ tdSource = "missing"
    /\ tdServices = ComposeNames
    /\ tdResult = <<Svc_xq_keeper, Svc_E2E_run, Svc_test_db, Svc_Test>>

(***************************************************************************)
(* The claim about the cleanup of the generated artifacts.                 *)
(***************************************************************************)

\* C24: whatever generateCompose calls and cleanup runs came before, a
\* cleanup removes a generated artifact only if the call that wrote it last
\* asked for ephemeral output (keepFile = false); an artifact last written
\* with keepFile = true is still there after cleanupTempFiles.
C24_CleanupRemovesOnlyEphemeral ==
    [][\A path \in ArtifactPaths :
          (artifacts[path].exists /\ ~artifacts'[path].exists)
              => ~artifacts[path].keepFile]_vars

(***************************************************************************)
(* The claims about execCommand.                                           *)
(***************************************************************************)

\* What holds of every call whatever its timeout: it resolves only on an
\* exit with code 0 and before its timer has fired; a timer that fires leaves
\* the child with a SIGTERM and the call rejected with the timeout in its
\* message; and a settled promise does not change.
SettlesOnce ==
    /\ [](\A i \in DOMAIN children :
            /\ children[i].promise = "resolved" =>
                  /\ children[i].state = "exited"
                  /\ children[i].exitCode = "0"
                  /\ children[i].timer # "fired"
            /\ children[i].timer = "fired" =>
                  /\ children[i].promise = "timeout"
                  /\ children[i].message = children[i].timeout
                  /\ \E k \in DOMAIN children[i].signals :
                        children[i].signals[k] = "SIGTERM")
    /\ [][\A i \in DOMAIN children :
            children[i].promise # "pending" =>
                children'[i].promise = children[i].promise]_vars
    /\ [][\A i \in DOMAIN children :
            (children[i].timer = "armed" /\ children'[i].timer = "fired") =>
                children[i].state = "running"]_vars

C25_OneSubprocessInFlight ==
    Cardinality({i \in DOMAIN children : children[i].state = "running"}) <= 1

(***************************************************************************)
(* The claim about interrupt signals during the wait.                      *)
(***************************************************************************)

\* C26: an interrupt signal delivered during the test-container wait cancels
\* it: the signal is forwarded to the subprocess in flight if there is one,
\* and no further status poll is started once it has arrived, whether it
\* arrived during a subprocess await or during a polling sleep.
C26_InterruptCancelsWait ==
    /\ [][(interrupted = "no" /\ interrupted' # "no") =>
            (interrupted' = "forwarded" <=> waitPc = "exec")]_vars
    /\ [][interrupted # "no" => ~(waitPc = "loop" /\ waitPc' = "exec")]_vars

=============================================================================
